---------------------------- MODULE Spec2Model ----------------------------
(***************************************************************************)
(* A model of the Markdown formatter of Nova Source                        *)
(* (src/src/nova/markdown/formatter.py) and of the markdown command of    *)
(* its command line (src/src/nova/cli.py).                                 *)
(*                                                                         *)
(* A text is a sequence of characters, each character a string of length   *)
(* one; a document is what str.split("\n") gives, a sequence of lines.     *)
(* Every rule is an operator from text to text that computes what the      *)
(* Python method computes, regular expressions included.                   *)
(***************************************************************************)
EXTENDS Integers, Sequences, FiniteSets, TLC

VARIABLES
    file,               \* the text of the markdown file on disk
    command,            \* the last call: [op, dry_run, is_file, rules]
    original_content,   \* the text the last call read from the file
    content,            \* the text the last call ended with
    detected,           \* the (rule, input text) pairs the detectors were given
    applied,            \* the identifiers of the fixers applied, in order
    result,             \* what format_file returned (FALSE for detect_issues)
    wrote,              \* whether the last call wrote the file
    source,             \* the files of the source directory of the backups
    backup_root,        \* the backup directories, by backup name
    manifest,           \* the manifest entries, in the order of the dict
    now,                \* the clock, in days
    request,            \* the last call of the backup manager and its arguments
    stats,              \* the stats that call returned
    restored,           \* the files of the directory the last restore wrote to
    at_call,            \* the manifest and the backups as that call found them
    history             \* what the source held at the last backup of each file
                        \* (seen) and at the backup of each name (snapshot),
                        \* and whether a cleanup has removed a backup (cleaned)

formatter_vars ==
    <<file, command, original_content, content, detected, applied, result, wrote>>
backup_vars ==
    <<source, backup_root, manifest, now, request, stats, restored, at_call, history>>
vars == <<formatter_vars, backup_vars>>

-----------------------------------------------------------------------------
(* Characters and the str methods the formatter uses.                      *)

NL == "\n"
SP == " "
TAB == "\t"
\* The backquote, which a TLA+ string cannot hold.
BQ == "backquote"

\* What Python's \s and str.strip() take for white space, within the alphabet.
WhiteSpace == {" ", "\t", "\n"}

Digits == {"0", "1", "2", "3", "4", "5", "6", "7", "8", "9"}

Min(a, b) == IF a < b THEN a ELSE b

\* s[i..] (1-based), the empty text when i is past the end.
Tail_(s, i) == SubSeq(s, i, Len(s))

\* s[..i]
Head_(s, i) == SubSeq(s, 1, i)

StartsWithAt(s, i, p) ==
    /\ i + Len(p) - 1 <= Len(s)
    /\ \A k \in 1..Len(p) : s[i + k - 1] = p[k]

StartsWith(s, p) == StartsWithAt(s, 1, p)

EndsWith(s, p) == Len(p) <= Len(s) /\ StartsWithAt(s, Len(s) - Len(p) + 1, p)

\* p in s
Contains(s, p) == \E i \in 1..(Len(s) + 1) : StartsWithAt(s, i, p)

\* str.find and str.rfind, 1-based, 0 when absent.
Find(s, p) ==
    IF Contains(s, p)
    THEN CHOOSE i \in 1..(Len(s) + 1) :
            /\ StartsWithAt(s, i, p)
            /\ \A j \in 1..(i - 1) : ~StartsWithAt(s, j, p)
    ELSE 0

RFind(s, p) ==
    IF Contains(s, p)
    THEN CHOOSE i \in 1..(Len(s) + 1) :
            /\ StartsWithAt(s, i, p)
            /\ \A j \in (i + 1)..(Len(s) + 1) : ~StartsWithAt(s, j, p)
    ELSE 0

\* The number of leading characters of s, from position i on, that lie in set.
RECURSIVE RunLen(_, _, _)
RunLen(s, i, set) ==
    IF i <= Len(s) /\ s[i] \in set THEN 1 + RunLen(s, i + 1, set) ELSE 0

\* The number of trailing characters of s that lie in set.
RECURSIVE RunLenBack(_, _, _)
RunLenBack(s, i, set) ==
    IF i >= 1 /\ s[i] \in set THEN 1 + RunLenBack(s, i - 1, set) ELSE 0

LStrip(s) == Tail_(s, RunLen(s, 1, WhiteSpace) + 1)

RStrip(s) == Head_(s, Len(s) - RunLenBack(s, Len(s), WhiteSpace))

Strip(s) == LStrip(RStrip(s))

\* str.rstrip("-")
RStripChars(s, set) == Head_(s, Len(s) - RunLenBack(s, Len(s), set))

\* str.split("\n"): always at least one line.
RECURSIVE SplitAcc(_, _, _, _, _)
SplitAcc(s, sep, i, cur, acc) ==
    IF i > Len(s) THEN Append(acc, cur)
    ELSE IF s[i] = sep THEN SplitAcc(s, sep, i + 1, <<>>, Append(acc, cur))
    ELSE SplitAcc(s, sep, i + 1, Append(cur, s[i]), acc)

SplitOn(s, sep) == SplitAcc(s, sep, 1, <<>>, <<>>)

Split(s) == SplitOn(s, NL)

\* sep.join(parts)
RECURSIVE JoinWith(_, _)
JoinWith(parts, sep) ==
    IF Len(parts) = 0 THEN <<>>
    ELSE IF Len(parts) = 1 THEN parts[1]
    ELSE parts[1] \o sep \o JoinWith(Tail(parts), sep)

Join(lines) == JoinWith(lines, <<NL>>)

\* "".join(parts)
RECURSIVE Concat(_)
Concat(parts) == IF Len(parts) = 0 THEN <<>> ELSE parts[1] \o Concat(Tail(parts))

\* str.replace(old, new) for a non-empty old: every occurrence, left to right.
RECURSIVE ReplaceFrom(_, _, _, _)
ReplaceFrom(s, i, old, new) ==
    IF i > Len(s) THEN <<>>
    ELSE IF StartsWithAt(s, i, old) THEN new \o ReplaceFrom(s, i + Len(old), old, new)
    ELSE <<s[i]>> \o ReplaceFrom(s, i + 1, old, new)

Replace(s, old, new) == ReplaceFrom(s, 1, old, new)

\* c * n
RECURSIVE Repeat(_, _)
Repeat(c, n) == IF n <= 0 THEN <<>> ELSE <<c>> \o Repeat(c, n - 1)

\* int(digits) and str(n)
DigitValue(c) ==
    CASE c = "0" -> 0 [] c = "1" -> 1 [] c = "2" -> 2 [] c = "3" -> 3 [] c = "4" -> 4
      [] c = "5" -> 5 [] c = "6" -> 6 [] c = "7" -> 7 [] c = "8" -> 8 [] c = "9" -> 9

DigitChar(n) ==
    CASE n = 0 -> "0" [] n = 1 -> "1" [] n = 2 -> "2" [] n = 3 -> "3" [] n = 4 -> "4"
      [] n = 5 -> "5" [] n = 6 -> "6" [] n = 7 -> "7" [] n = 8 -> "8" [] n = 9 -> "9"

RECURSIVE StrToInt(_)
StrToInt(ds) ==
    IF Len(ds) = 0 THEN 0
    ELSE 10 * StrToInt(Head_(ds, Len(ds) - 1)) + DigitValue(ds[Len(ds)])

RECURSIVE IntToStr(_)
IntToStr(n) == IF n < 10 THEN <<DigitChar(n)>> ELSE IntToStr(n \div 10) \o <<DigitChar(n % 10)>>

-----------------------------------------------------------------------------
(* The line classifiers.                                                   *)

\* The number of '#' a text begins with.
HashRun(s) == RunLen(s, 1, {"#"})

\* re.match(r"^#{1,6}\s+", s): one to six '#', then white space.
MatchesAtxPrefix(s) ==
    LET n == HashRun(s) IN n >= 1 /\ n <= 6 /\ Len(s) > n /\ s[n + 1] \in WhiteSpace

_is_header_line(line) == HashRun(Strip(line)) >= 1

\* re.match(r"^[\s]*[-\*\+]\s", line)
_is_unordered_list_line(line) ==
    LET k == RunLen(line, 1, WhiteSpace)
    IN  /\ Len(line) >= k + 2
        /\ line[k + 1] \in {"-", "*", "+"}
        /\ line[k + 2] \in WhiteSpace

\* re.match(r"^[\s]*\d+\.\s", line)
_is_ordered_list_line(line) ==
    LET k == RunLen(line, 1, WhiteSpace)
        d == RunLen(line, k + 1, Digits)
    IN  /\ d >= 1
        /\ Len(line) >= k + d + 2
        /\ line[k + d + 1] = "."
        /\ line[k + d + 2] \in WhiteSpace

_is_table_line(line) == StartsWith(Strip(line), <<"|">>)

\* What a failed re.match gives (Python's None).
NoMatch == [matched |-> FALSE]

\* re.match(r"^(#{1,6})\s+(.+)$", line.strip()): (level, title) or None.
_extract_header_info(line) ==
    LET s == Strip(line)
        n == HashRun(s)
        rest == Tail_(s, n + 1)
        w == RunLen(rest, 1, WhiteSpace)
    IN  IF MatchesAtxPrefix(s) /\ Len(rest) > w
        THEN [matched |-> TRUE, level |-> n, title |-> Strip(Tail_(rest, w + 1))]
        ELSE NoMatch

\* re.match(r"^(\s*)(\d+)\.\s+(.+)$", line.rstrip()): (indent, number, text) or None.
_extract_ordered_list_info(line) ==
    LET s == RStrip(line)
        k == RunLen(s, 1, WhiteSpace)
        d == RunLen(s, k + 1, Digits)
        rest == Tail_(s, k + d + 2)
        w == RunLen(rest, 1, WhiteSpace)
    IN  IF d >= 1 /\ Len(s) >= k + d + 1 /\ s[k + d + 1] = "." /\ w >= 1 /\ Len(rest) > w
        THEN [matched |-> TRUE,
              indent |-> Head_(s, k),
              number |-> StrToInt(SubSeq(s, k + 1, k + d)),
              text |-> Tail_(rest, w + 1)]
        ELSE NoMatch

-----------------------------------------------------------------------------
(* The fix rules: text to text.                                            *)

\* MD009: trailing white space goes, except on a line that holds a '|' and
\* does not begin with one.
_fix_trailing_spaces(text) ==
    LET lines == Split(text)
        fixed(line) ==
            IF Contains(line, <<"|">>) /\ ~StartsWith(Strip(line), <<"|">>)
            THEN line
            ELSE RStrip(line)
    IN  Join([i \in 1..Len(lines) |-> fixed(lines[i])])

\* MD010: content.replace("\t", "    ")
_fix_hard_tabs(text) == Replace(text, <<TAB>>, <<SP, SP, SP, SP>>)

\* MD012: re.sub(r"\n{3,}", "\n\n", content)
RECURSIVE CollapseFrom(_, _)
CollapseFrom(s, i) ==
    IF i > Len(s) THEN <<>>
    ELSE IF s[i] = NL
         THEN LET r == RunLen(s, i, {NL})
              IN  (IF r >= 3 THEN <<NL, NL>> ELSE Repeat(NL, r)) \o CollapseFrom(s, i + r)
         ELSE <<s[i]>> \o CollapseFrom(s, i + 1)

\* re.sub(r"\n{4,}", "\n\n", content): a run of three newlines is left.
RECURSIVE CollapseOverThreeFrom(_, _)
CollapseOverThreeFrom(s, i) ==
    IF i > Len(s) THEN <<>>
    ELSE IF s[i] = NL
         THEN (IF RunLen(s, i, {NL}) > 3 THEN <<NL, NL>> ELSE Repeat(NL, RunLen(s, i, {NL})))
              \o CollapseOverThreeFrom(s, i + RunLen(s, i, {NL}))
         ELSE <<s[i]>> \o CollapseOverThreeFrom(s, i + 1)

\* A blank-line collapse whose pattern asks for four newlines.
_fix_multiple_blanks_over_three(text) == CollapseOverThreeFrom(text, 1)

_fix_multiple_blanks(text) == CollapseFrom(text, 1)

\* MD022: a blank line before and after every line that begins with '#',
\* decided on the input lines.
RECURSIVE BlanksAroundHeadersFrom(_, _, _)
BlanksAroundHeadersFrom(lines, i, res) ==
    IF i > Len(lines) THEN res
    ELSE LET line == lines[i]
             before == IF i > 1 /\ Strip(lines[i - 1]) # <<>> THEN <<<<>>>> ELSE <<>>
             after == IF i < Len(lines) /\ Strip(lines[i + 1]) # <<>> THEN <<<<>>>> ELSE <<>>
         IN  IF StartsWith(Strip(line), <<"#">>)
             THEN BlanksAroundHeadersFrom(lines, i + 1, res \o before \o <<line>> \o after)
             ELSE BlanksAroundHeadersFrom(lines, i + 1, Append(res, line))

_fix_blanks_around_headers(text) == Join(BlanksAroundHeadersFrom(Split(text), 1, <<>>))

\* The test of MD032 for a list item, made on the stripped line.
IsListItem(line) ==
    \/ _is_unordered_list_line(Strip(line))
    \/ _is_ordered_list_line(Strip(line))

\* The inner loop of MD032: the first j past the items that follow the item at i.
RECURSIVE ListEnd(_, _)
ListEnd(lines, j) ==
    IF j > Len(lines) THEN j
    ELSE IF Strip(lines[j]) = <<>> \/ ~IsListItem(lines[j]) THEN j
    ELSE ListEnd(lines, j + 1)

\* MD032: a blank line before a block of list items and, when the line after
\* the block is not the last line of the document, after it.
RECURSIVE BlanksAroundListsFrom(_, _, _)
BlanksAroundListsFrom(lines, i, res) ==
    IF i > Len(lines) THEN res
    ELSE IF IsListItem(lines[i])
         THEN LET before == IF i > 1 /\ Strip(lines[i - 1]) # <<>> THEN <<<<>>>> ELSE <<>>
                  j == ListEnd(lines, i + 1)
                  after == IF j < Len(lines) /\ Strip(lines[j]) # <<>> THEN <<<<>>>> ELSE <<>>
              IN  BlanksAroundListsFrom(lines, j,
                      res \o before \o SubSeq(lines, i, j - 1) \o after)
         ELSE BlanksAroundListsFrom(lines, i + 1, Append(res, lines[i]))

_fix_blanks_around_lists(text) == Join(BlanksAroundListsFrom(Split(text), 1, <<>>))

\* MD047
_fix_file_end_newline(text) == IF EndsWith(text, <<NL>>) THEN text ELSE Append(text, NL)

\* MD041: the first non-blank line, unless it begins with '#', becomes "# " + it.
_fix_first_line_header(text) ==
    LET lines == Split(text)
        nonblank == {i \in 1..Len(lines) : Strip(lines[i]) # <<>>}
    IN  IF nonblank = {} THEN Join(lines)
        ELSE LET i == CHOOSE k \in nonblank : \A m \in nonblank : k <= m
                 stripped_line == Strip(lines[i])
             IN  IF StartsWith(stripped_line, <<"#">>) THEN text
                 ELSE Join([lines EXCEPT ![i] = <<"#", SP>> \o stripped_line])

\* The largest k in 1..6 with s beginning with k '#' followed by a white space
\* character (space = TRUE) or by another character (space = FALSE), 0 when
\* there is none: what (#{1,6}) captures, greedily and with backtracking, in
\* front of \s or of [^\s].
HashesBefore(s, space) ==
    LET fits == {k \in 1..Min(HashRun(s), 6) : Len(s) > k /\ (s[k + 1] \in WhiteSpace) = space}
    IN  IF fits = {} THEN 0 ELSE CHOOSE k \in fits : \A m \in fits : m <= k

\* MD018: re.match(r"^#{1,6}[^\s]", line) and not re.match(r"^#{1,6}\s+", line.strip())
\* then re.sub(r"^(#{1,6})([^\s])", r"\1 \2", line)
_fix_no_space_after_hash(text) ==
    LET lines == Split(text)
        fixed(line) ==
            LET k == HashesBefore(line, FALSE)
            IN  IF k > 0 /\ HashesBefore(Strip(line), TRUE) = 0
                THEN Head_(line, k) \o <<SP>> \o Tail_(line, k + 1)
                ELSE line
    IN  Join([i \in 1..Len(lines) |-> fixed(lines[i])])

\* MD019: re.match(r"^#{1,6}\s+", line.strip()) and re.match(r"^#{1,6}\s{2,}", line)
\* then re.sub(r"^(#{1,6})\s{2,}", r"\1 ", line)
_fix_multiple_spaces_after_hash(text) ==
    LET lines == Split(text)
        fixed(line) ==
            LET k == HashesBefore(line, TRUE)
                w == RunLen(line, k + 1, WhiteSpace)
            IN  IF HashesBefore(Strip(line), TRUE) > 0 /\ k > 0 /\ w >= 2
                THEN Head_(line, k) \o <<SP>> \o Tail_(line, k + w + 1)
                ELSE line
    IN  Join([i \in 1..Len(lines) |-> fixed(lines[i])])

\* MD023
_fix_header_start_left(text) ==
    LET lines == Split(text)
        fixed(line) == IF StartsWith(Strip(line), <<"#">>) THEN LStrip(line) ELSE line
    IN  Join([i \in 1..Len(lines) |-> fixed(lines[i])])

\* re.match(r"^[-=]+\s*$", s): a Setext underline.
IsUnderline(s) ==
    LET d == RunLen(s, 1, {"-", "="})
    IN  d >= 1 /\ RunLen(s, d + 1, WhiteSpace) = Len(s) - d

\* re.match(r"^[^\s]", s)
BeginsNonSpace(s) == Len(s) >= 1 /\ s[1] \notin WhiteSpace

\* A first loop of MD003 that tells a Setext underline by the line above it.
HeaderStyleTargetByLineAbove(lines) ==
    LET is_atx(line) ==
            _is_header_line(RStrip(line)) /\ MatchesAtxPrefix(Strip(RStrip(line)))
        has_atx == \E i \in 1..Len(lines) : is_atx(lines[i])
        has_setext ==
            \E i \in 2..Len(lines) :
                /\ ~is_atx(lines[i])
                /\ IsUnderline(RStrip(lines[i]))
                /\ BeginsNonSpace(lines[i - 1])
    IN  IF (has_atx /\ has_setext) \/ (~has_atx /\ ~has_setext) THEN "atx"
        ELSE IF has_atx THEN "atx"
        ELSE "setext"

\* The first loop of MD003: the style the document uses. processed_lines is
\* filled by the second loop only and is still empty here.
HeaderStyleTarget(lines) ==
    LET processed_lines == <<>>
        is_atx(line) ==
            _is_header_line(RStrip(line)) /\ MatchesAtxPrefix(Strip(RStrip(line)))
        has_atx == \E i \in 1..Len(lines) : is_atx(lines[i])
        has_setext ==
            \E i \in 1..Len(lines) :
                /\ ~is_atx(lines[i])
                /\ IsUnderline(RStrip(lines[i]))
                /\ Len(processed_lines) > 0
                /\ BeginsNonSpace(processed_lines[Len(processed_lines)])
    IN  IF (has_atx /\ has_setext) \/ (~has_atx /\ ~has_setext) THEN "atx"
        ELSE IF has_atx THEN "atx"
        ELSE "setext"

\* The second loop of MD003.
RECURSIVE HeaderStyleFrom(_, _, _, _)
HeaderStyleFrom(lines, i, target_style, processed_lines) ==
    IF i > Len(lines) THEN processed_lines
    ELSE LET original_line == lines[i]
             line == RStrip(original_line)
             header_info == _extract_header_info(line)
         IN  IF header_info.matched
             THEN LET level == header_info.level
                      title == header_info.title
                  IN  IF target_style = "setext"
                      THEN HeaderStyleFrom(lines, i + 1, target_style,
                              processed_lines \o
                              <<title, Repeat(IF level = 1 THEN "=" ELSE "-", Len(title))>>)
                      ELSE HeaderStyleFrom(lines, i + 1, target_style,
                              Append(processed_lines, Repeat("#", level) \o <<SP>> \o title))
             ELSE IF /\ i + 1 <= Len(lines)
                     /\ BeginsNonSpace(line)
                     /\ IsUnderline(RStrip(lines[i + 1]))
             THEN LET title == Strip(line)
                      underline == RStrip(lines[i + 1])
                      level == IF Contains(underline, <<"=">>) THEN 1 ELSE 2
                  IN  IF target_style = "atx"
                      THEN HeaderStyleFrom(lines, i + 2, target_style,
                              Append(processed_lines, Repeat("#", level) \o <<SP>> \o title))
                      ELSE HeaderStyleFrom(lines, i + 2, target_style,
                              processed_lines \o <<title, underline>>)
             ELSE HeaderStyleFrom(lines, i + 1, target_style,
                      Append(processed_lines, original_line))

\* MD003
_fix_header_style(text) ==
    LET lines == Split(text)
    IN  Join(HeaderStyleFrom(lines, 1, HeaderStyleTarget(lines), <<>>))

\* list_contexts.setdefault(indent, n): the ordinal kept is the first one stored.
SetContextOnce(list_contexts, indent, n) ==
    [x \in (DOMAIN list_contexts) \cup {indent} |->
        IF x \in DOMAIN list_contexts THEN list_contexts[x] ELSE n]

\* list_contexts[indent] = n
SetContext(list_contexts, indent, n) ==
    [x \in (DOMAIN list_contexts) \cup {indent} |-> IF x = indent THEN n ELSE list_contexts[x]]

\* MD029: the loop over the lines, with the ordinal last used at each indentation.
RECURSIVE OlPrefixFrom(_, _, _, _)
OlPrefixFrom(lines, i, result_lines, list_contexts) ==
    IF i > Len(lines) THEN result_lines
    ELSE LET line == lines[i]
             list_info == _extract_ordered_list_info(line)
         IN  IF list_info.matched
             THEN LET indent == list_info.indent
                      current_number == list_info.number
                      prev_stripped ==
                          IF Len(result_lines) > 0 THEN result_lines[Len(result_lines)]
                          ELSE RStrip(lines[i - 1])
                      prev_list_info == _extract_ordered_list_info(prev_stripped)
                      prev_line_is_list ==
                          /\ i > 1
                          /\ prev_list_info.matched
                          /\ prev_list_info.indent = indent
                      expected_number ==
                          IF ~prev_line_is_list THEN 1
                          ELSE IF indent \in DOMAIN list_contexts
                               THEN list_contexts[indent] + 1
                               ELSE 1
                      fixed_line ==
                          indent \o IntToStr(expected_number) \o <<".", SP>> \o list_info.text
                  IN  OlPrefixFrom(lines, i + 1,
                          Append(result_lines,
                                 IF current_number # expected_number THEN fixed_line ELSE line),
                          SetContext(list_contexts, indent, expected_number))
             ELSE OlPrefixFrom(lines, i + 1, Append(result_lines, line), list_contexts)

_fix_ol_prefix(text) == Join(OlPrefixFrom(Split(text), 1, <<>>, [x \in {} |-> 0]))

\* re.match(r"^\|[\s\-\|]*\|$", stripped): a separator row.
IsSeparatorRow(stripped) ==
    /\ Len(stripped) >= 2
    /\ stripped[1] = "|"
    /\ stripped[Len(stripped)] = "|"
    /\ \A k \in 2..(Len(stripped) - 1) : stripped[k] \in WhiteSpace \cup {"-", "|"}

\* A table-pipe fixer that pads the cells as they come, without trimming them.
_fix_table_pipe_style_untrimmed(text) ==
    LET lines == Split(text)
        cell(part) == IF Strip(part) # <<>> THEN <<SP>> \o part \o <<SP>> ELSE <<>>
        fixed(line) ==
            LET stripped == Strip(line)
                parts == SplitOn(stripped, "|")
            IN  IF _is_table_line(line) /\ EndsWith(stripped, <<"|">>)
                THEN IF /\ StartsWith(stripped, <<"|">>)
                        /\ EndsWith(stripped, <<"|">>)
                        /\ IsSeparatorRow(stripped)
                     THEN line
                     ELSE JoinWith([k \in 1..Len(parts) |-> cell(parts[k])], <<"|">>)
                ELSE line
    IN  Join([i \in 1..Len(lines) |-> fixed(lines[i])])

\* MD055 (the fixer): the cells of a row, trimmed and padded with one space.
_fix_table_pipe_style(text) ==
    LET lines == Split(text)
        cell(part) == IF Strip(part) # <<>> THEN <<SP>> \o Strip(part) \o <<SP>> ELSE <<>>
        fixed(line) ==
            LET stripped == Strip(line)
                parts == SplitOn(stripped, "|")
            IN  IF _is_table_line(line) /\ EndsWith(stripped, <<"|">>)
                THEN IF /\ StartsWith(stripped, <<"|">>)
                        /\ EndsWith(stripped, <<"|">>)
                        /\ IsSeparatorRow(stripped)
                     THEN line
                     ELSE JoinWith([k \in 1..Len(parts) |-> cell(parts[k])], <<"|">>)
                ELSE line
    IN  Join([i \in 1..Len(lines) |-> fixed(lines[i])])

\* The characters [^\s<>"{}|\\^`\[\]] of the URL patterns.
UrlStop == WhiteSpace \cup {"<", ">", "\"", "{", "}", "|", "\\", "^", BQ, "[", "]"}

Http == <<"h", "t", "t", "p", ":", "/", "/">>
Https == <<"h", "t", "t", "p", "s", ":", "/", "/">>

\* The length of what https?:// matches at position i of s, 0 when it does not.
SchemeLenAt(s, i) ==
    IF StartsWithAt(s, i, Https) THEN Len(Https)
    ELSE IF StartsWithAt(s, i, Http) THEN Len(Http)
    ELSE 0

\* The length of what https?://[^\s<>"{}|\\^`\[\]]+ matches at position i, 0 when
\* it does not match there.
UrlLenAt(s, i) ==
    LET h == SchemeLenAt(s, i)
        r == Len(s) - i - h + 1 -
             (IF \E k \in (i + h)..Len(s) : s[k] \in UrlStop
              THEN Len(s) + 1 - (CHOOSE k \in (i + h)..Len(s) :
                                    /\ s[k] \in UrlStop
                                    /\ \A m \in (i + h)..(k - 1) : s[m] \notin UrlStop)
              ELSE 0)
    IN  IF h > 0 /\ r >= 1 THEN h + r ELSE 0

\* _process_line_for_urls: re.sub over the bare URLs of one line.
RECURSIVE ProcessUrlsFrom(_, _)
ProcessUrlsFrom(line, i) ==
    IF i > Len(line) THEN <<>>
    ELSE LET n == UrlLenAt(line, i)
             url == SubSeq(line, i, i + n - 1)
             linked ==
                 \/ i > 1 /\ line[i - 1] \in {"[", "(", "<"}
                 \/ i + n <= Len(line) /\ line[i + n] \in {"]", ")", ">"}
         IN  IF n > 0
             THEN (IF linked THEN url ELSE <<"<">> \o url \o <<">">>)
                  \o ProcessUrlsFrom(line, i + n)
             ELSE <<line[i]>> \o ProcessUrlsFrom(line, i + 1)

\* A re.sub whose replace_bare_url looks at the character before the URL only.
RECURSIVE ProcessUrlsLookingBackFrom(_, _)
ProcessUrlsLookingBackFrom(line, i) ==
    IF i > Len(line) THEN <<>>
    ELSE IF UrlLenAt(line, i) > 0
         THEN (IF i > 1 /\ line[i - 1] \in {"[", "(", "<"}
               THEN SubSeq(line, i, i + UrlLenAt(line, i) - 1)
               ELSE <<"<">> \o SubSeq(line, i, i + UrlLenAt(line, i) - 1) \o <<">">>)
              \o ProcessUrlsLookingBackFrom(line, i + UrlLenAt(line, i))
         ELSE <<line[i]>> \o ProcessUrlsLookingBackFrom(line, i + 1)

\* A _process_line_for_urls that does not look at the character after the URL.
_process_line_for_urls_looking_back(line) == ProcessUrlsLookingBackFrom(line, 1)

_process_line_for_urls(line) == ProcessUrlsFrom(line, 1)

\* re.search(r'https?://[^\s<>"{}|\\^`\[\]]+-?$', line): where the leftmost match
\* begins, 0 when there is none.
UrlAtEnd(line) ==
    LET starts == {i \in 1..Len(line) : UrlLenAt(line, i) > 0 /\ i + UrlLenAt(line, i) - 1 = Len(line)}
    IN  IF starts = {} THEN 0 ELSE CHOOSE i \in starts : \A k \in starts : i <= k

\* A scan that takes the last line for the closing one when no line holds a '>'.
OpenUrlEndOrLast(lines, i) ==
    LET closing == {j \in (i + 1)..Len(lines) : Contains(lines[j], <<">">>)}
    IN  IF closing = {} THEN (IF i < Len(lines) THEN Len(lines) ELSE 0)
        ELSE CHOOSE j \in closing : \A k \in closing : j <= k

\* The scan of MD034 for the '>' that closes a '<http' left open on line i: the
\* first j > i whose line holds a '>', 0 when no line does.
OpenUrlEnd(lines, i) ==
    LET closing == {j \in (i + 1)..Len(lines) : Contains(lines[j], <<">">>)}
    IN  IF closing = {} THEN 0 ELSE CHOOSE j \in closing : \A k \in closing : j <= k

\* The scan of MD034 for the continuation of a bare URL that line i ends with
\* a '-' in: [done, j, line], the line to emit and the last line consumed.
RECURSIVE WrappedUrlScan(_, _, _, _, _)
WrappedUrlScan(lines, i, j, url_start, url_parts) ==
    LET line == lines[i]
        plain == [i |-> i, line |-> _process_line_for_urls(line)]
    IN  IF j > Len(lines) THEN plain
        ELSE LET next_line == Strip(lines[j])
                 dash == EndsWith(next_line, <<"-">>)
             IN  IF /\ next_line # <<>>
                    /\ next_line[1] \notin {"#", "-", "*", ">", BQ, "|", "["}
                 THEN IF Contains(next_line, <<SP>>)
                      THEN LET url_part == SplitOn(next_line, SP)[1]
                               parts == Append(url_parts,
                                   <<"-">> \o (IF dash THEN RStripChars(url_part, {"-"})
                                               ELSE url_part))
                           IN  IF /\ url_part # <<>>
                                  /\ ~StartsWith(url_part, Http)
                                  /\ ~StartsWith(url_part, Https)
                               THEN IF ~dash
                                    THEN [i |-> j,
                                          line |-> Replace(line, url_start,
                                                       <<"<">> \o Concat(parts) \o <<">">>)
                                                   \o Tail_(next_line, Len(url_part) + 1)]
                                    ELSE WrappedUrlScan(lines, i, j + 1, url_start, parts)
                               ELSE plain
                      ELSE LET parts == Append(url_parts,
                                   <<"-">> \o (IF dash THEN RStripChars(next_line, {"-"})
                                               ELSE next_line))
                           IN  IF ~dash
                               THEN [i |-> j,
                                     line |-> Replace(line, url_start,
                                                  <<"<">> \o Concat(parts) \o <<">">>)]
                               ELSE WrappedUrlScan(lines, i, j + 1, url_start, parts)
                 ELSE plain

\* MD034: the loop over the lines.
RECURSIVE BareUrlFrom(_, _, _)
BareUrlFrom(lines, i, processed_lines) ==
    IF i > Len(lines) THEN processed_lines
    ELSE LET line == lines[i]
             st == Strip(line)
             line_ends_with_gt ==
                 EndsWith(st, <<">">>) /\ ~(Len(st) >= 2 /\ EndsWith(st, <<"-", ">">>))
         IN  IF /\ Contains(line, <<"<">> \o Http) \/ Contains(line, <<"<">> \o Https)
                /\ ~line_ends_with_gt
             THEN LET start_pos == RFind(line, <<"<">>)
                      remaining == Tail_(line, start_pos + 1)
                      first_part ==
                          IF EndsWith(remaining, <<"-", ">">>)
                          THEN Head_(remaining, Len(remaining) - 2)
                          ELSE remaining
                      j == OpenUrlEnd(lines, i)
                  IN  IF j > 0
                      THEN LET next_line == lines[j]
                               end_pos == Find(next_line, <<">">>)
                               url_parts ==
                                   <<first_part>> \o SubSeq(lines, i + 1, j - 1)
                                   \o <<<<"-">> \o Head_(next_line, end_pos - 1)>>
                               complete_url == <<"<">> \o Concat(url_parts) \o <<">">>
                               new_line ==
                                   Head_(line, start_pos - 1) \o complete_url
                                   \o Tail_(next_line, end_pos + 1)
                           IN  BareUrlFrom(lines, j + 1, Append(processed_lines, new_line))
                      ELSE BareUrlFrom(lines, i + 1, Append(processed_lines, line))
             ELSE IF /\ EndsWith(st, <<"-">>)
                     /\ Contains(line, Http) \/ Contains(line, Https)
             THEN LET at == UrlAtEnd(line)
                      url_start == Tail_(line, at)
                      done == WrappedUrlScan(lines, i, i + 1, url_start,
                                             <<RStripChars(url_start, {"-"})>>)
                  IN  IF at > 0
                      THEN BareUrlFrom(lines, done.i + 1, Append(processed_lines, done.line))
                      ELSE BareUrlFrom(lines, i + 1,
                               Append(processed_lines, _process_line_for_urls(line)))
             ELSE BareUrlFrom(lines, i + 1,
                      Append(processed_lines, _process_line_for_urls(line)))

_fix_bare_url(text) == Join(BareUrlFrom(Split(text), 1, <<>>))

\* The fix rules that return the text as it came.
_fix_no_space_inside_hashes(text) == text
_fix_multiple_spaces_inside_hashes(text) == text
_fix_multiple_spaces_after_bq(text) == text
_fix_blank_line_inside_bq(text) == text
_fix_ol_indent(text) == text
_fix_blanks_around_fences(text) == text
_fix_spaces_inside_emphasis(text) == text
_fix_spaces_inside_code_span(text) == text
_fix_no_space_inside_link(text) == text

-----------------------------------------------------------------------------
(* The detection rules: each prints what it finds and returns the text.    *)

_detect_line_length(text) == text

\* self.max_line_length, for a formatter made with
\* MarkdownFormatter(max_line_length=8).
max_line_length == 8

\* The loop of MD013 from line i on: a line that is not a fence line, a
\* heading, a list item or blank, table rows included, adds an issue when it
\* is longer than max_length.
RECURSIVE LineLengthFrom(_, _, _, _)
LineLengthFrom(lines, i, max_length, issues) ==
    IF i > Len(lines) THEN issues
    ELSE IF \/ StartsWith(Strip(lines[i]), <<BQ, BQ, BQ>>)
            \/ _is_header_line(lines[i])
            \/ _is_unordered_list_line(lines[i])
            \/ _is_ordered_list_line(lines[i])
            \/ Strip(lines[i]) = <<>>
    THEN LineLengthFrom(lines, i + 1, max_length, issues)
    ELSE IF Len(lines[i]) > max_length
    THEN LineLengthFrom(lines, i + 1, max_length,
             Append(issues,
                 [line |-> i,
                  length |-> Len(lines[i]),
                  content |-> IF Len(lines[i]) > 80
                              THEN Head_(lines[i], 80) \o <<".", ".", ".">>
                              ELSE lines[i]]))
    ELSE LineLengthFrom(lines, i + 1, max_length, issues)

\* A line-length detector that also reports the lines of exactly the maximum.
LineLengthIssuesFromMaximum(text) ==
    LineLengthFrom(Split(text), 1, max_line_length - 1, <<>>)

\* The issues MD013 prints, in the order it prints them.
LineLengthIssues(text) == LineLengthFrom(Split(text), 1, max_line_length, <<>>)
_fix_multiple_headers_same_content(text) == text

\* The loop of MD024 from line i on: headers holds, for each title met, the
\* line where it was first met; a heading whose title is in headers adds an
\* issue, any other heading adds its title to headers. The regular expression
\* is the one of _extract_header_info.
RECURSIVE MultipleHeadersFrom(_, _, _, _)
MultipleHeadersFrom(lines, i, headers, issues) ==
    IF i > Len(lines) THEN issues
    ELSE IF ~_extract_header_info(lines[i]).matched
    THEN MultipleHeadersFrom(lines, i + 1, headers, issues)
    ELSE IF \E h \in headers : h.title = _extract_header_info(lines[i]).title
    THEN MultipleHeadersFrom(lines, i + 1, headers,
             Append(issues,
                 [line |-> i,
                  title |-> _extract_header_info(lines[i]).title,
                  previous_line |->
                      (CHOOSE h \in headers :
                           h.title = _extract_header_info(lines[i]).title).line,
                  context |-> Strip(lines[i])]))
    ELSE MultipleHeadersFrom(lines, i + 1,
             headers \cup {[title |-> _extract_header_info(lines[i]).title, line |-> i]},
             issues)

\* The issues MD024 prints, in the order it prints them.
MultipleHeadersIssues(text) == MultipleHeadersFrom(Split(text), 1, {}, <<>>)
_fix_multiple_top_level_headers(text) == text

\* The loop of MD025 from line i on: the headings of level 1 that
\* _extract_header_info finds.
RECURSIVE TopLevelHeadersFrom(_, _, _)
TopLevelHeadersFrom(lines, i, top_level_headers) ==
    IF i > Len(lines) THEN top_level_headers
    ELSE IF _extract_header_info(lines[i]).matched /\ _extract_header_info(lines[i]).level = 1
    THEN TopLevelHeadersFrom(lines, i + 1,
             Append(top_level_headers,
                 [line |-> i,
                  title |-> _extract_header_info(lines[i]).title,
                  content |-> Strip(lines[i])]))
    ELSE TopLevelHeadersFrom(lines, i + 1, top_level_headers)

\* What MD025 prints for the headings found: nothing for one heading or none,
\* else an entry for every heading, the first included; the entries after the
\* first also name the line of the first (previous, empty for the first).
PrintTopLevelHeaders(top_level_headers) ==
    IF Len(top_level_headers) > 1
    THEN [i \in 1..Len(top_level_headers) |->
             [line |-> top_level_headers[i].line,
              title |-> top_level_headers[i].title,
              previous |-> IF i > 1 THEN <<top_level_headers[1].line>> ELSE <<>>,
              content |-> top_level_headers[i].content]]
    ELSE <<>>

\* The entries MD025 prints, in the order it prints them.
TopLevelHeadersIssues(text) ==
    PrintTopLevelHeaders(TopLevelHeadersFrom(Split(text), 1, <<>>))
_detect_inline_html(text) == text
_fix_no_emphasis_only(text) == text
_fix_link_fragments(text) == text
\* A table-pipe detector that hands back the rows as the fixer would space them.
_detect_table_pipe_style_rewriting(text) == _fix_table_pipe_style(text)

_detect_table_pipe_style(text) == text
_detect_table_multiline_cells(text) == text

-----------------------------------------------------------------------------
(* The rule catalogue of __init__: two tables, each in its order of        *)
(* insertion.                                                              *)

auto_fix_rules ==
    <<"MD009", "MD010", "MD012", "MD018", "MD019", "MD020", "MD021", "MD022",
      "MD023", "MD003", "MD027", "MD028", "MD029", "MD030", "MD031", "MD032",
      "MD034", "MD037", "MD038", "MD039", "MD041", "MD047", "MD055">>

detection_only_rules ==
    <<"MD013", "MD024", "MD025", "MD033", "MD036", "MD051", "MD055", "MD056">>

Range(seq) == {seq[i] : i \in 1..Len(seq)}

\* self.auto_fix_rules[rule](content)
AutoFix(rule, text) ==
    CASE rule = "MD009" -> _fix_trailing_spaces(text)
      [] rule = "MD010" -> _fix_hard_tabs(text)
      [] rule = "MD012" -> _fix_multiple_blanks(text)
      [] rule = "MD018" -> _fix_no_space_after_hash(text)
      [] rule = "MD019" -> _fix_multiple_spaces_after_hash(text)
      [] rule = "MD020" -> _fix_no_space_inside_hashes(text)
      [] rule = "MD021" -> _fix_multiple_spaces_inside_hashes(text)
      [] rule = "MD022" -> _fix_blanks_around_headers(text)
      [] rule = "MD023" -> _fix_header_start_left(text)
      [] rule = "MD003" -> _fix_header_style(text)
      [] rule = "MD027" -> _fix_multiple_spaces_after_bq(text)
      [] rule = "MD028" -> _fix_blank_line_inside_bq(text)
      [] rule = "MD029" -> _fix_ol_prefix(text)
      [] rule = "MD030" -> _fix_ol_indent(text)
      [] rule = "MD031" -> _fix_blanks_around_fences(text)
      [] rule = "MD032" -> _fix_blanks_around_lists(text)
      [] rule = "MD034" -> _fix_bare_url(text)
      [] rule = "MD037" -> _fix_spaces_inside_emphasis(text)
      [] rule = "MD038" -> _fix_spaces_inside_code_span(text)
      [] rule = "MD039" -> _fix_no_space_inside_link(text)
      [] rule = "MD041" -> _fix_first_line_header(text)
      [] rule = "MD047" -> _fix_file_end_newline(text)
      [] rule = "MD055" -> _fix_table_pipe_style(text)

\* self.detection_only_rules[rule](content): the text the detector returns.
Detect(rule, text) ==
    CASE rule = "MD013" -> _detect_line_length(text)
      [] rule = "MD024" -> _fix_multiple_headers_same_content(text)
      [] rule = "MD025" -> _fix_multiple_top_level_headers(text)
      [] rule = "MD033" -> _detect_inline_html(text)
      [] rule = "MD036" -> _fix_no_emphasis_only(text)
      [] rule = "MD051" -> _fix_link_fragments(text)
      [] rule = "MD055" -> _detect_table_pipe_style(text)
      [] rule = "MD056" -> _detect_table_multiline_cells(text)

-----------------------------------------------------------------------------
(* format_file, detect_issues, format_directory and the markdown command.  *)

\* An optional list of rule identifiers: None, or a list.
NoRules == [is_none |-> TRUE, list |-> <<>>]
Rules(list) == [is_none |-> FALSE, list |-> list]

\* Python's truth of an optional list: neither None nor empty.
Truthy(rules) == ~rules.is_none /\ Len(rules.list) > 0

\* [r for r in rules if r in table]
RECURSIVE Known(_, _)
Known(list, table) ==
    IF Len(list) = 0 THEN <<>>
    ELSE (IF list[1] \in Range(table) THEN <<list[1]>> ELSE <<>>) \o Known(Tail(list), table)

\* seq[-1]
Last(seq) == seq[Len(seq)]

\* content = self.auto_fix_rules[rule](content), after the texts in contents
FixerStep(contents, rule) ==
    Append(contents,
           IF rule \in Range(auto_fix_rules)
           THEN AutoFix(rule, Last(contents))
           ELSE Last(contents))

\* for rule in auto_rules: content = self.auto_fix_rules[rule](content)
\* The texts the loop goes through: the one it starts with, then content after
\* each rule of auto_rules.
RECURSIVE FixerContents(_, _)
FixerContents(auto_rules, text) ==
    IF Len(auto_rules) = 0 THEN <<text>>
    ELSE FixerStep(FixerContents(SubSeq(auto_rules, 1, Len(auto_rules) - 1), text),
                   auto_rules[Len(auto_rules)])

\* content when the loop ends
ApplyFixers(auto_rules, text) == Last(FixerContents(auto_rules, text))

\* for rule in detection_rules: self.detection_only_rules[rule](content)
\* The calls the loop makes: the detector, the text it was given and the text it
\* returned (which the caller drops).
RunDetectors(detection_rules, text) ==
    LET known == Known(detection_rules, detection_only_rules)
    IN  [k \in 1..Len(known) |->
            [rule |-> known[k], input |-> text, output |-> Detect(known[k], text)]]

\* The rules of a table that a call runs: those of the caller's list that the
\* table knows, in the order of the list, or the whole table when the list is
\* None or empty.
SelectedRules(rules_to_fix, table) ==
    IF Truthy(rules_to_fix) THEN Known(rules_to_fix.list, table) ELSE table

\* What a call leaves: the text it read, the detector calls it made, the fixers
\* it applied, the text it ended with, whether it reported a change, whether it
\* wrote the file and what the file holds afterwards.
Outcome(text, detected_, applied_, content_, result_, wrote_) ==
    [original_content |-> text,
     detected |-> detected_,
     applied |-> applied_,
     content |-> content_,
     result |-> result_,
     wrote |-> wrote_,
     file |-> IF wrote_ THEN content_ ELSE text]

\* The end of format_file: the file is written and True returned when content
\* differs from original_content.
WriteIfChanged(text, detected_, applied_, content_) ==
    Outcome(text, detected_, applied_, content_, content_ # text, content_ # text)

\* The end of a format_file that returns True whenever it ran a fixer.
WriteAndReportFixers(text, detected_, applied_, content_) ==
    Outcome(text, detected_, applied_, content_, Len(applied_) > 0, content_ # text)

\* The detector loop of a format_file that runs it after the fixer loop.
DetectAfterFixers(text, detection_rules, auto_rules, content_) ==
    WriteIfChanged(text, RunDetectors(detection_rules, content_), auto_rules, content_)

\* A format_file that runs the detectors after the fixers, on the rewritten text.
format_file_detecting_last(text, rules_to_fix) ==
    DetectAfterFixers(text,
                      SelectedRules(rules_to_fix, detection_only_rules),
                      SelectedRules(rules_to_fix, auto_fix_rules),
                      ApplyFixers(SelectedRules(rules_to_fix, auto_fix_rules), text))

\* A format_file that reports a change whenever it ran a fixer.
format_file_reporting_fixers(text, rules_to_fix) ==
    WriteAndReportFixers(text,
                         RunDetectors(SelectedRules(rules_to_fix, detection_only_rules), text),
                         SelectedRules(rules_to_fix, auto_fix_rules),
                         ApplyFixers(SelectedRules(rules_to_fix, auto_fix_rules), text))

\* format_file on a file that holds text: the detectors run on the text it read,
\* then the fixers one after the other, then the file is written if the text
\* changed.
format_file(text, rules_to_fix) ==
    WriteIfChanged(text,
                   RunDetectors(SelectedRules(rules_to_fix, detection_only_rules), text),
                   SelectedRules(rules_to_fix, auto_fix_rules),
                   ApplyFixers(SelectedRules(rules_to_fix, auto_fix_rules), text))

\* detect_issues: the detectors alone, nothing written.
detect_issues(text, rules_to_check) ==
    Outcome(text, RunDetectors(SelectedRules(rules_to_check, detection_only_rules), text),
            <<>>, text, FALSE, FALSE)

\* format_directory on a directory whose one markdown file holds text, none excluded.
format_directory(text, rules_to_fix) == format_file(text, rules_to_fix)

\* The rule lists the markdown command passes in dry-run mode.
DryRunFileRules ==
    Rules(<<"MD013", "MD024", "MD025", "MD033", "MD036", "MD051", "MD055", "MD056">>)
DryRunDirectoryRules == Rules(<<"MD024", "MD025", "MD036", "MD051", "MD055">>)

\* run_markdown on an existing path: a file, or the directory that holds it.
run_markdown(text, dry_run, is_file, rules) ==
    IF dry_run
    THEN IF is_file
         THEN detect_issues(text, IF Truthy(rules) THEN rules ELSE DryRunFileRules)
         ELSE format_directory(text, DryRunDirectoryRules)
    ELSE IF is_file
         THEN format_file(text, rules)
         ELSE format_directory(text, rules)

-----------------------------------------------------------------------------
(* The documents and the rule selections the model is run on.              *)

\* The largest number of blocks a document is made of.
MaxBlocks == 2

\* The blocks: one line each, but for the fenced code block.
Blocks ==
    { <<>>,
      <<"#", SP, "A">>,
      <<"#", "a">>,
      <<"a", SP>>,
      <<"-", SP, "x">>,
      <<"2", ".", SP, "x">>,
      <<"|", "a", "|", "b", "|">>,
      <<BQ, BQ, BQ, NL, "#", "a", NL, BQ, BQ, BQ>>,
      Http \o <<"a", SP, "b">>,
      <<">", "q">>,
      <<"-", "-", "-">>,
      <<TAB, "b">> }

\* The documents of at most n blocks, one block after the other.
RECURSIVE DocsOf(_)
DocsOf(n) ==
    IF n <= 1 THEN Blocks
    ELSE DocsOf(n - 1) \cup {d \o <<NL>> \o b : d \in DocsOf(n - 1), b \in Blocks}

Docs == DocsOf(MaxBlocks)

\* The selections format_file and format_directory are called with: none, the
\* empty one, unknown identifiers, fixers in both orders, a fixer twice,
\* detectors, and the identifier that both tables hold.
Selections ==
    { NoRules,
      Rules(<<>>),
      Rules(<<"MD999">>),
      Rules(<<"MD009">>),
      Rules(<<"MD009", "MD999">>),
      Rules(<<"MD012", "MD022">>),
      Rules(<<"MD022", "MD012">>),
      Rules(<<"MD034">>),
      Rules(<<"MD034", "MD034">>),
      Rules(<<"MD055">>),
      Rules(<<"MD013", "MD024", "MD056">>) }

\* What --rules gives the markdown command: None, or a list of at least one.
CommandRules == {NoRules, Rules(<<"MD055">>), Rules(<<"MD013", "MD999">>)}

-----------------------------------------------------------------------------
(* The backup manager (src/src/nova/markdown/backup.py): a source          *)
(* directory, the backup directories under backup_root and the manifest.   *)

\* Python's None, and what a path holds where no file is.
None == [none |-> TRUE]
NoFile == "no file"

\* What a file can hold.
Contents == {"x", "y"}

\* The files of the source directory, each by its path below the directory:
\* two markdown files, one of them in a sub-directory, and a text file.
FileA == [parent |-> <<>>, stem |-> "a", suffix |-> ".md"]
FileB == [parent |-> <<"d">>, stem |-> "b", suffix |-> ".md"]
FileN == [parent |-> <<>>, stem |-> "n", suffix |-> ".txt"]
SourceFiles == {FileA, FileB, FileN}

\* Path.name as a path: the last component alone.
PathName(path) == [parent |-> <<>>, stem |-> path.stem, suffix |-> path.suffix]

\* The paths a file can have below a backup directory or a restore target.
TreePaths == SourceFiles \cup {PathName(path) : path \in SourceFiles}

\* A directory with no file, a directory that exists, and no directory.
EmptyTree == [path \in TreePaths |-> NoFile]
Dir(tree) == [exists |-> TRUE, tree |-> tree]
NoDir == [exists |-> FALSE, tree |-> EmptyTree]

\* The source path of a backup: the source directory itself, or one file of it.
SourceDir == [is_file |-> FALSE]
SourceFile(path) == [is_file |-> TRUE, path |-> path]

\* dict.get(key): None when the key is missing.
Get(dict, key) == IF key \in DOMAIN dict THEN dict[key] ELSE None

\* hashlib.md5(f.read()).hexdigest(): the digest of the bytes, taken to tell
\* different contents apart.
_calculate_file_hash(bytes) == [md5 |-> bytes]

\* The first file_info of files whose path is file_path, or None.
RECURSIVE FileInfoFor(_, _, _)
FileInfoFor(files, i, file_path) ==
    IF i > Len(files) THEN None
    ELSE IF Get(files[i], "path") = file_path THEN files[i]
    ELSE FileInfoFor(files, i + 1, file_path)

\* _get_last_backup_info from entry i of the manifest back to the first:
\* for ... in reversed(self.manifest.items()).
RECURSIVE LastBackupInfoFrom(_, _, _)
LastBackupInfoFrom(manifest_, i, file_path) ==
    IF i < 1 THEN None
    ELSE IF FileInfoFor(manifest_[i].stats.files, 1, file_path) # None
    THEN FileInfoFor(manifest_[i].stats.files, 1, file_path)
    ELSE LastBackupInfoFrom(manifest_, i - 1, file_path)

_get_last_backup_info(manifest_, file_path) ==
    LastBackupInfoFrom(manifest_, Len(manifest_), file_path)

\* if last_backup and last_backup.get("hash") == current_hash
IsUnchanged(manifest_, file_path, bytes) ==
    /\ _get_last_backup_info(manifest_, file_path) # None
    /\ Get(_get_last_backup_info(manifest_, file_path), "hash") = _calculate_file_hash(bytes)

\* The file_info of a file left out, and of a file copied.
SkippedInfo(file_path) == [path |-> file_path, status |-> "skipped", reason |-> "unchanged"]
BackedUpInfo(file_path, backup_file, bytes) ==
    [path |-> file_path, backup_path |-> backup_file,
     hash |-> _calculate_file_hash(bytes), status |-> "backed_up"]

\* One file of a backup: counted, then left out when the backup is incremental
\* and the file unchanged, else copied to backup_file. run holds the counts so
\* far and tree the backup directory.
BackupFile(run, manifest_, file_path, backup_file, bytes, incremental) ==
    IF incremental /\ IsUnchanged(manifest_, file_path, bytes)
    THEN [run EXCEPT !.total_files = @ + 1,
                     !.skipped_files = @ + 1,
                     !.files = Append(@, SkippedInfo(file_path))]
    ELSE [run EXCEPT !.total_files = @ + 1,
                     !.backed_up_files = @ + 1,
                     !.files = Append(@, BackedUpInfo(file_path, backup_file, bytes)),
                     !.tree = [@ EXCEPT ![backup_file] = bytes]]

\* The counts a backup starts with, and the backup directory as it is.
NoFiles(tree) ==
    [total_files |-> 0, backed_up_files |-> 0, skipped_files |-> 0, errors |-> 0,
     files |-> <<>>, tree |-> tree]

\* The file goes to backup_dir / source_file.name.
_backup_single_file(source_, manifest_, tree, source_file, incremental) ==
    BackupFile(NoFiles(tree), manifest_, source_file, PathName(source_file),
               source_[source_file], incremental)

\* source_dir.rglob("*.md"), in the order the directory gives its files.
RGlobMarkdown(source_) ==
    SelectSeq(<<FileA, FileB, FileN>>,
              LAMBDA path : source_[path] # NoFile /\ path.suffix = ".md")

\* The loop of _backup_directory over the files from the i-th on: each file goes
\* to backup_dir / md_file.relative_to(source_dir).
RECURSIVE BackupDirectoryFrom(_, _, _, _, _, _)
BackupDirectoryFrom(run, source_, manifest_, md_files, i, incremental) ==
    IF i > Len(md_files) THEN run
    ELSE BackupDirectoryFrom(
             BackupFile(run, manifest_, md_files[i], md_files[i],
                        source_[md_files[i]], incremental),
             source_, manifest_, md_files, i + 1, incremental)

_backup_directory(source_, manifest_, tree, incremental) ==
    BackupDirectoryFrom(NoFiles(tree), source_, manifest_, RGlobMarkdown(source_), 1,
                        incremental)

\* self.manifest[backup_name] = info: a new key goes last, a key already there
\* keeps its place.
SetItem(manifest_, info) ==
    IF \E i \in 1..Len(manifest_) : manifest_[i].name = info.name
    THEN [i \in 1..Len(manifest_) |->
             IF manifest_[i].name = info.name THEN info ELSE manifest_[i]]
    ELSE Append(manifest_, info)

\* del self.manifest[backup_name]
DelItem(manifest_, backup_name) ==
    SelectSeq(manifest_, LAMBDA info : info.name # backup_name)

\* backup_dir.mkdir(parents=True, exist_ok=True): the directory as it is, or a
\* new one with no file.
MkDir(backup_root_, backup_name) ==
    IF backup_root_[backup_name].exists THEN backup_root_[backup_name].tree ELSE EmptyTree

\* The stats create_backup returns, with the backup directory it leaves (tree).
BackupStats(source_, manifest_, backup_root_, source_path, backup_name, incremental, timestamp) ==
    [backup_name |-> backup_name, timestamp |-> timestamp, source_path |-> source_path]
    @@ (IF source_path.is_file
        THEN _backup_single_file(source_, manifest_, MkDir(backup_root_, backup_name),
                                 source_path.path, incremental)
        ELSE _backup_directory(source_, manifest_, MkDir(backup_root_, backup_name),
                               incremental))

\* The entry create_backup puts in the manifest for the stats.
ManifestEntry(stats_, incremental) ==
    [name |-> stats_.backup_name, timestamp |-> stats_.timestamp,
     source_path |-> stats_.source_path,
     stats |-> [key \in DOMAIN stats_ \ {"tree"} |-> stats_[key]],
     incremental |-> incremental]

\* sorted insertion for backups.sort(key=timestamp, reverse=True): the sort is
\* stable, entries of one timestamp keep the order they had.
RECURSIVE SortedByTimestamp(_)
SortedByTimestamp(backups) ==
    IF Len(backups) = 0 THEN <<>>
    ELSE LET rest == SortedByTimestamp(Tail(backups))
             newer == SelectSeq(rest, LAMBDA b : b.timestamp > Head(backups).timestamp)
             older == SelectSeq(rest, LAMBDA b : b.timestamp <= Head(backups).timestamp)
         IN  newer \o <<Head(backups)>> \o older

\* The backups of the manifest, the newest first.
list_backups(manifest_) == SortedByTimestamp(manifest_)

\* A choice of the backups to remove that takes a backup of exactly keep_days
\* for an old one.
ToRemoveAtCutoff(backups, keep_days, keep_count, now_) ==
    IF Len(backups) <= keep_count THEN <<>>
    ELSE SelectSeq(SubSeq(backups, keep_count + 1, Len(backups)),
                   LAMBDA b : b.timestamp <= now_ - keep_days)

\* for backup in backups[keep_count:]: if backup_date < cutoff_date
ToRemove(backups, keep_days, keep_count, now_) ==
    IF Len(backups) <= keep_count THEN <<>>
    ELSE SelectSeq(SubSeq(backups, keep_count + 1, Len(backups)),
                   LAMBDA b : b.timestamp < now_ - keep_days)

\* The loop of cleanup_old_backups over to_remove from the i-th on: a backup
\* whose directory exists loses the directory and its manifest entry, and is
\* counted.
RECURSIVE RemoveFrom(_, _, _)
RemoveFrom(run, to_remove, i) ==
    IF i > Len(to_remove) THEN run
    ELSE IF run.backup_root[to_remove[i].name].exists
    THEN RemoveFrom([run EXCEPT !.backup_root[to_remove[i].name] = NoDir,
                                !.manifest = DelItem(@, to_remove[i].name),
                                !.removed_backups = @ + 1],
                    to_remove, i + 1)
    ELSE RemoveFrom(run, to_remove, i + 1)

cleanup_old_backups(manifest_, backup_root_, keep_days, keep_count, now_) ==
    RemoveFrom([removed_backups |-> 0, errors |-> 0,
                manifest |-> manifest_, backup_root |-> backup_root_],
               ToRemove(list_backups(manifest_), keep_days, keep_count, now_), 1)

\* os.walk(backup_dir): the files of the backup directory.
Walk(tree) == {path \in TreePaths : tree[path] # NoFile}

\* restore_backup into restore_path: every file of the backup directory is
\* copied to restore_path / its path below the backup directory.
restore_backup(backup_root_, backup_name, restore_tree) ==
    [backup_name |-> backup_name,
     restored_files |-> Cardinality(Walk(backup_root_[backup_name].tree)),
     errors |-> 0,
     tree |-> [path \in TreePaths |->
                  IF path \in Walk(backup_root_[backup_name].tree)
                  THEN backup_root_[backup_name].tree[path]
                  ELSE restore_tree[path]]]

\* The names the backups are given, and the arguments of the cleanup.
BackupNames == {"backup_1", "backup_2"}
KeepDays == {0, 1}
KeepCounts == {0, 1}

\* The backup manager after __init__ with a new backup root, and the source
\* directory as the tests set it up: no backup, an empty manifest, no call in
\* progress.
NoRequest == [op |-> "none"]
NoHistory == [seen |-> [path \in SourceFiles |-> "never"],
              snapshot |-> [backup_name \in {} |-> EmptyTree],
              cleaned |-> FALSE]

BackupInit ==
    /\ source = [path \in SourceFiles |-> "x"]
    /\ backup_root = [backup_name \in BackupNames |-> NoDir]
    /\ manifest = <<>>
    /\ now = 0
    /\ request = NoRequest
    /\ stats = None
    /\ restored = EmptyTree
    /\ at_call = None
    /\ history = NoHistory

-----------------------------------------------------------------------------
(* The state machine: a markdown file, and the calls made on it.           *)

\* No call in progress.
Idle == [op |-> "none", dry_run |-> FALSE, is_file |-> TRUE, rules |-> NoRules]

Init ==
    /\ file \in Docs
    /\ command = Idle
    /\ original_content = file
    /\ content = file
    /\ detected = <<>>
    /\ applied = <<>>
    /\ result = FALSE
    /\ wrote = FALSE
    /\ BackupInit

\* The state a call leaves, from the record the handler gives. The engine is
\* single-threaded: a call starts when none is in progress.
Done(cmd, run) ==
    /\ command = Idle
    /\ command' = cmd
    /\ file' = run.file
    /\ original_content' = run.original_content
    /\ content' = run.content
    /\ detected' = run.detected
    /\ applied' = run.applied
    /\ result' = run.result
    /\ wrote' = run.wrote
    /\ UNCHANGED backup_vars

FormatFile(rules_to_fix) ==
    Done([op |-> "format_file", dry_run |-> FALSE, is_file |-> TRUE, rules |-> rules_to_fix],
         format_file(file, rules_to_fix))

DetectIssues(rules_to_check) ==
    Done([op |-> "detect_issues", dry_run |-> FALSE, is_file |-> TRUE, rules |-> rules_to_check],
         detect_issues(file, rules_to_check))

FormatDirectory(rules_to_fix) ==
    Done([op |-> "format_directory", dry_run |-> FALSE, is_file |-> FALSE, rules |-> rules_to_fix],
         format_directory(file, rules_to_fix))

RunMarkdown(dry_run, is_file, rules) ==
    Done([op |-> "run_markdown", dry_run |-> dry_run, is_file |-> is_file, rules |-> rules],
         run_markdown(file, dry_run, is_file, rules))

\* The call returns: what it held is gone, the file stays as it left it.
Return ==
    /\ command # Idle
    /\ command' = Idle
    /\ original_content' = file
    /\ content' = file
    /\ detected' = <<>>
    /\ applied' = <<>>
    /\ result' = FALSE
    /\ wrote' = FALSE
    /\ UNCHANGED file
    /\ UNCHANGED backup_vars

Next ==
    \/ \E rules \in Selections : FormatFile(rules)
    \/ \E rules \in Selections : DetectIssues(rules)
    \/ \E rules \in Selections : FormatDirectory(rules)
    \/ \E dry_run \in BOOLEAN, is_file \in BOOLEAN, rules \in CommandRules :
          RunMarkdown(dry_run, is_file, rules)
    \/ Return

Spec == Init /\ [][Next]_vars

-----------------------------------------------------------------------------
(* The rules called on their own, as the tests of the formatter call them: *)
(* a text goes in, the text the rule returns comes out, no file is written. *)

\* The largest number of lines of a text a rule is called on.
MaxLines == 3

\* The texts of one to n lines, each line taken from lines.
RECURSIVE TextsOf(_, _)
TextsOf(lines, n) ==
    IF n <= 1 THEN lines
    ELSE TextsOf(lines, n - 1) \cup {t \o <<NL>> \o l : t \in TextsOf(lines, n - 1), l \in lines}

\* Lines for the rules about blank lines and the end of the file.
BlankLines == {<<>>, <<"a">>}

\* Lines for the rules about ATX markers.
HashLines ==
    { <<"#", "a">>, <<"#", SP, SP, "a">>, <<"#", "#", "b">>, <<"#", SP, "a">>,
      <<SP, "#", "a">>, <<"#", TAB, "a">>, <<"x">> }

\* Lines for the heading-style rule and the duplicate-heading detector.
HeadingLines ==
    { <<"#", SP, "A">>, <<"#", SP, "a">>, <<"#", "#", SP, "A">>, <<"A">>,
      <<"=", "=", "=">>, <<"-", "-", "-">>, <<"#", "a">>, <<>> }

\* Lines for the ordered-list renumberer.
OrderedLines ==
    { <<"1", ".", SP, "a">>, <<"6", ".", SP, "b">>, <<SP, "3", ".", SP, "c">>,
      <<"x">>, <<>> }

\* Lines for the blanks-around-lists rule.
ListLines == {<<"-", SP, "x">>, <<"1", ".", SP, "a">>, <<"x">>, <<>>}

\* Lines for the bare-URL rule.
UrlLines ==
    { Http \o <<"a", SP, "b">>,
      <<"<">> \o Http \o <<"a", ">">>,
      <<"[", "t", "]", "(">> \o Http \o <<"a", ")">>,
      <<"<">> \o Http \o <<"a", ">", SP, "b">>,
      Http \o <<"a", SP, "<">> \o Http \o <<"a", ">">>,
      Http \o <<"a", ">">>,
      <<">", "q">> }

\* Lines for the URLs that MD034 puts together from several lines: a line that
\* ends in the middle of a bare URL, continuations without a space, with one,
\* and with one and a '-' at the end, a blank line, a heading, a '<http://'
\* that is left open, and a line that closes one.
WrappedUrlLines ==
    { Http \o <<"a", "-">>, <<"b">>, <<"b", SP, "c">>, <<"b", SP, "c", "-">>,
      <<>>, <<"#", SP, "q">>, <<"<">> \o Http \o <<"a">>, <<"c", ">">> }

\* Lines for the table-pipe rule: rows without and with spaces round the
\* cells, a row set in from the margin, a row with an empty cell, a separator
\* row, a row without the closing pipe, and a line of text.
TableLines ==
    { <<"|", "a", "|", "b", "|">>,
      <<"|", SP, "a", SP, "|", SP, "b", SP, "|">>,
      <<SP, "|", "a", "|", SP, SP, "b", "|", SP>>,
      <<"|", "a", "|", "|">>,
      <<"|", "-", "|", SP, "|">>,
      <<"|", "a", "|", "b">>,
      <<"x">> }

\* Lines for the line-length detector: a plain line of the maximum length, and
\* lines one character longer: plain, a heading, a list item, a table row, a
\* fence line and a blank line.
LongLines ==
    { Repeat("x", max_line_length),
      Repeat("x", max_line_length + 1),
      <<"#", SP>> \o Repeat("x", max_line_length - 1),
      <<"-", SP>> \o Repeat("x", max_line_length - 1),
      <<"|">> \o Repeat("x", max_line_length),
      <<BQ, BQ, BQ>> \o Repeat("x", max_line_length - 2),
      Repeat(SP, max_line_length + 1),
      <<"x">> }

\* The texts the rules are called on.
RuleTexts ==
    TextsOf(BlankLines, MaxLines + 2)
        \cup TextsOf(LongLines, MaxLines - 1)
        \cup UNION {TextsOf(lines, MaxLines) :
                       lines \in {HashLines, HeadingLines, OrderedLines, ListLines, UrlLines,
                                  WrappedUrlLines, TableLines}}

\* The fix rules that are called, one alone or two in a row.
FixerCalls ==
    { <<"MD047">>, <<"MD012">>, <<"MD034">>, <<"MD029">>, <<"MD003">>,
      <<"MD018", "MD019">>, <<"MD032">>, <<"MD055">> }

RuleInit ==
    /\ file \in RuleTexts
    /\ command = Idle
    /\ original_content = file
    /\ content = file
    /\ detected = <<>>
    /\ applied = <<>>
    /\ result = FALSE
    /\ wrote = FALSE
    /\ BackupInit

\* content = formatter._fix_...(content), for each rule of auto_rules in turn.
CallFixers(auto_rules) ==
    Done([op |-> "fixers", dry_run |-> FALSE, is_file |-> FALSE, rules |-> Rules(auto_rules)],
         Outcome(file, <<>>, auto_rules, ApplyFixers(auto_rules, file), FALSE, FALSE))

\* The detection rules the tests call.
DetectorCalls == {"MD013", "MD024", "MD025"}

\* What a detection rule prints about the text.
Issues(rule, text) ==
    CASE rule = "MD013" -> LineLengthIssues(text)
      [] rule = "MD024" -> MultipleHeadersIssues(text)
      [] rule = "MD025" -> TopLevelHeadersIssues(text)

\* result = formatter._fix_...(content) with the output captured: the text the
\* rule returns and the issues it prints.
CallDetector(rule) ==
    Done([op |-> "detector", dry_run |-> FALSE, is_file |-> FALSE, rules |-> Rules(<<rule>>)],
         Outcome(file,
                 <<[rule |-> rule, input |-> file, output |-> Detect(rule, file),
                    issues |-> Issues(rule, file)]>>,
                 <<>>, Detect(rule, file), FALSE, FALSE))

RuleNext ==
    \/ \E auto_rules \in FixerCalls : CallFixers(auto_rules)
    \/ \E rule \in DetectorCalls : CallDetector(rule)
    \/ Return

RuleSpec == RuleInit /\ [][RuleNext]_vars

-----------------------------------------------------------------------------
(* The backup manager: the calls the tests make on it, between changes of  *)
(* the source files.                                                       *)

\* The clock stops here.
MaxTime == 3

\* The state a call of the backup manager starts from.
Before == [manifest |-> manifest, backup_root |-> backup_root, seen |-> history.seen, now |-> now]

\* The files a backup of source_path takes in.
Covered(source_path) ==
    IF source_path.is_file THEN {source_path.path} ELSE Range(RGlobMarkdown(source))

\* The state create_backup leaves, from the stats it returns: the backup
\* directory, the manifest entry, and the time the call took.
CreateBackupDone(req, stats_) ==
    /\ request' = req
    /\ stats' = [key \in DOMAIN stats_ \ {"tree"} |-> stats_[key]]
    /\ backup_root' = [backup_root EXCEPT ![req.backup_name] = Dir(stats_.tree)]
    /\ manifest' = SetItem(manifest, ManifestEntry(stats_, req.incremental))
    /\ now' = now + 1
    /\ at_call' = Before
    /\ history' =
           [seen |-> [path \in SourceFiles |->
                         IF path \in Covered(req.source_path)
                         THEN source[path] ELSE history.seen[path]],
            snapshot |-> [backup_name \in DOMAIN history.snapshot \cup {req.backup_name} |->
                             IF backup_name = req.backup_name
                             THEN [path \in TreePaths |->
                                      IF path \in Covered(req.source_path)
                                      THEN source[path] ELSE NoFile]
                             ELSE history.snapshot[backup_name]],
            cleaned |-> history.cleaned]
    /\ UNCHANGED <<source, restored>>
    /\ UNCHANGED formatter_vars

\* backup_manager.create_backup(source_path, backup_name, incremental)
CreateBackup(source_path, backup_name, incremental) ==
    /\ request = NoRequest
    /\ now < MaxTime
    /\ source_path.is_file => source[source_path.path] # NoFile
    /\ CreateBackupDone(
           [op |-> "create_backup", source_path |-> source_path,
            backup_name |-> backup_name, incremental |-> incremental],
           BackupStats(source, manifest, backup_root, source_path, backup_name,
                       incremental, now))

\* backup_manager.restore_backup(backup_name, restore_path), restore_path a new
\* directory.
RestoreBackup(backup_name) ==
    /\ request = NoRequest
    /\ \E i \in 1..Len(manifest) : manifest[i].name = backup_name
    /\ backup_root[backup_name].exists
    /\ request' = [op |-> "restore_backup", backup_name |-> backup_name]
    /\ stats' = [key \in {"backup_name", "restored_files", "errors"} |->
                    restore_backup(backup_root, backup_name, EmptyTree)[key]]
    /\ restored' = restore_backup(backup_root, backup_name, EmptyTree).tree
    /\ at_call' = Before
    /\ UNCHANGED <<source, backup_root, manifest, now, history>>
    /\ UNCHANGED formatter_vars

\* The state cleanup_old_backups leaves, from what its loop gives.
CleanupDone(req, run) ==
    /\ request' = req
    /\ stats' = [removed_backups |-> run.removed_backups, errors |-> run.errors]
    /\ manifest' = run.manifest
    /\ backup_root' = run.backup_root
    /\ at_call' = Before
    /\ history' = [history EXCEPT !.cleaned = @ \/ run.removed_backups > 0]
    /\ UNCHANGED <<source, now, restored>>
    /\ UNCHANGED formatter_vars

\* backup_manager.cleanup_old_backups(keep_days, keep_count)
CleanupOldBackups(keep_days, keep_count) ==
    /\ request = NoRequest
    /\ CleanupDone([op |-> "cleanup_old_backups", keep_days |-> keep_days,
                    keep_count |-> keep_count],
                   cleanup_old_backups(manifest, backup_root, keep_days, keep_count, now))

\* test_file.write_text(bytes), and test_file.unlink() for NoFile.
WriteSource(path, bytes) ==
    /\ request = NoRequest
    /\ source[path] # bytes
    /\ source' = [source EXCEPT ![path] = bytes]
    /\ UNCHANGED <<backup_root, manifest, now, request, stats, restored, at_call, history>>
    /\ UNCHANGED formatter_vars

\* A day passes.
Tick ==
    /\ request = NoRequest
    /\ now < MaxTime
    /\ now' = now + 1
    /\ UNCHANGED <<source, backup_root, manifest, request, stats, restored, at_call, history>>
    /\ UNCHANGED formatter_vars

\* The call returns: what it gave is dropped, the restore directory removed.
BackupReturn ==
    /\ request # NoRequest
    /\ request' = NoRequest
    /\ stats' = None
    /\ restored' = EmptyTree
    /\ at_call' = None
    /\ UNCHANGED <<source, backup_root, manifest, now, history>>
    /\ UNCHANGED formatter_vars

\* The formatter is not called.
BackupSpecInit ==
    /\ file = <<>>
    /\ command = Idle
    /\ original_content = file
    /\ content = file
    /\ detected = <<>>
    /\ applied = <<>>
    /\ result = FALSE
    /\ wrote = FALSE
    /\ BackupInit

BackupNext ==
    \/ \E source_path \in {SourceDir, SourceFile(FileA)},
          backup_name \in BackupNames, incremental \in BOOLEAN :
           CreateBackup(source_path, backup_name, incremental)
    \/ \E backup_name \in BackupNames : RestoreBackup(backup_name)
    \/ \E keep_days \in KeepDays, keep_count \in KeepCounts :
           CleanupOldBackups(keep_days, keep_count)
    \/ \E bytes \in Contents \cup {NoFile} : WriteSource(FileA, bytes)
    \/ Tick
    \/ BackupReturn

BackupSpec == BackupSpecInit /\ [][BackupNext]_vars


-----------------------------------------------------------------------------
(* The properties.                                                         *)

\* C1: the full pipeline is idempotent: for every document and every rule
\* selection, formatting the output of a formatting run again with the same
\* selection gives exactly the same text, and the second run reports no change.
C1_PipelineIdempotent ==
    command.op = "format_file" =>
        LET again == format_file(file, command.rules)
        IN  again.content = content /\ ~again.result

\* C2: every fix rule of the auto-fix catalogue is idempotent on its own:
\* applying it to its own output gives that output again, for every document.
C2_FixersIdempotent ==
    \A rule \in Range(auto_fix_rules) :
        AutoFix(rule, AutoFix(rule, file)) = AutoFix(rule, file)

\* C3: every detection function returns the text it was given, for every
\* document, so running any subset of the detection functions leaves the text
\* and the file as they were.
C3_DetectorsReturnInput ==
    /\ \A rule \in Range(detection_only_rules) : Detect(rule, file) = file
    /\ \A k \in 1..Len(detected) : detected[k].output = detected[k].input
    /\ command.op = "detect_issues" =>
           content = original_content /\ file = original_content /\ ~wrote

\* C3 happens: detect_issues ran every detector on a document with a table row
\* that the table-pipe fixer would rewrite.
C3_Witness ==
    /\ command.op = "detect_issues"
    /\ Len(detected) = Len(detection_only_rules)
    /\ _fix_table_pipe_style(original_content) # original_content

\* C4: the rule catalogue is a partition: every rule identifier a run looks up
\* is registered in exactly one of the auto-fix table and the detection-only
\* table, never in both.
C4_CataloguePartition ==
    \A rule \in Range(applied) \cup {detected[k].rule : k \in 1..Len(detected)} :
        (rule \in Range(auto_fix_rules)) # (rule \in Range(detection_only_rules))

\* C5: dry-run mode of the markdown command, on a file and on a directory, only
\* reports: when it is done no markdown file has been written or changed.
C5_DryRunWritesNothing ==
    (command.op = "run_markdown" /\ command.dry_run) =>
        (~wrote /\ file = original_content)

\* The fixers of a selection, each once, in the order of the catalogue.
InCatalogueOrder(rules) ==
    IF Truthy(rules) THEN Known(auto_fix_rules, rules.list) ELSE auto_fix_rules

\* C6: the selected fixers are applied in the catalogue's declared order,
\* whatever the order and the repetitions of the caller's list: any selection
\* with the same set of fixer identifiers gives the same output.
C6_CatalogueOrder ==
    command.op = "format_file" =>
        /\ content = ApplyFixers(InCatalogueOrder(command.rules), original_content)
        /\ \A rules \in Selections :
               InCatalogueOrder(rules) = InCatalogueOrder(command.rules) =>
                   format_file(original_content, rules).content = content

\* C7: in a formatting run every selected detector is given the original input
\* text: no detector receives text that a fixer has rewritten.
C7_DetectorsSeeOriginal ==
    command.op \in {"format_file", "format_directory", "run_markdown"} =>
        \A k \in 1..Len(detected) : detected[k].input = original_content

\* C7 happens: a run of format_file with detectors and fixers whose fixers
\* rewrote the text.
C7_Witness ==
    /\ command.op = "format_file"
    /\ Len(detected) > 0
    /\ Len(applied) > 0
    /\ content # original_content

\* C8: format_file returns True and rewrites the file if and only if the text
\* after the selected fixers differs from the text it read; when they are equal
\* it returns False and the file is not written.
C8_ChangedIffDiffers ==
    command.op = "format_file" =>
        /\ result = (content # original_content)
        /\ wrote = result
        /\ file = content
        /\ ~result => file = original_content

\* C8 happens in its second case: format_file ran fixers, they left the text as
\* it was, and it returned False.
C8_Witness ==
    /\ command.op = "format_file"
    /\ Len(applied) > 0
    /\ content = original_content
    /\ ~result
    /\ ~wrote

\* The identifiers of a list that one of the two tables knows.
KnownIds(list) == Known(list, auto_fix_rules \o detection_only_rules)

\* C9: unknown rule identifiers are ignored: a run whose selection holds unknown
\* identifiers behaves as the run with only its known identifiers, and a
\* selection of unknown identifiers only applies no rule, leaves the document
\* as it is and reports no change.
C9_UnknownIgnored ==
    (command.op = "format_file" /\ ~command.rules.is_none) =>
        LET known == format_file(original_content, Rules(KnownIds(command.rules.list)))
        IN  /\ content = known.content
            /\ result = known.result
            /\ applied = known.applied
            /\ (Len(command.rules.list) > 0 /\ Len(KnownIds(command.rules.list)) = 0) =>
                   (applied = <<>> /\ content = original_content /\ ~result)


\* A fence line: its text without the blanks around it starts with three
\* backquotes.
IsFenceLine(line) == StartsWith(Strip(line), <<BQ, BQ, BQ>>)

\* The fenced blocks of lines from line i on: for each opening fence line and
\* its closing fence line, the lines between them. open tells that line i is
\* inside a fence, and body holds the lines of that fence so far.
RECURSIVE FencedFrom(_, _, _, _)
FencedFrom(lines, i, open, body) ==
    IF i > Len(lines) THEN <<>>
    ELSE IF IsFenceLine(lines[i])
         THEN IF open
              THEN <<body>> \o FencedFrom(lines, i + 1, FALSE, <<>>)
              ELSE FencedFrom(lines, i + 1, TRUE, <<>>)
         ELSE FencedFrom(lines, i + 1, open, IF open THEN Append(body, lines[i]) ELSE body)

FencedBlocks(text) == FencedFrom(Split(text), 1, FALSE, <<>>)

\* C10: the fix rules leave fenced code blocks alone: after a run with all
\* fixers the lines between an opening fence line and its closing fence line
\* are the lines that were there, none rewritten, none added, none merged.
C10_FencesUntouched ==
    (command.op = "format_file" /\ ~Truthy(command.rules)) =>
        FencedBlocks(content) = FencedBlocks(original_content)


\* C11: after a formatting run with all rules the text holds no run of three or
\* more newline characters, for every input document: the blank lines put
\* around headings and lists are collapsed too.
C11_NoTripleNewline ==
    (command.op = "format_file" /\ ~Truthy(command.rules)) =>
        ~Contains(content, <<NL, NL, NL>>)


\* The number of newline characters a text ends with.
NewlinesAtEnd(text) == RunLenBack(text, Len(text), {NL})

\* C12: after the file-end-newline rule every document ends with exactly one
\* newline: a text without one gets one appended, a text ending in exactly one
\* is unchanged, and the result never ends with two or more.
C12_OneNewlineAtEnd ==
    (command.op = "fixers" /\ applied = <<"MD047">>) =>
        /\ NewlinesAtEnd(content) = 1
        /\ NewlinesAtEnd(original_content) = 0 => content = Append(original_content, NL)
        /\ NewlinesAtEnd(original_content) = 1 => content = original_content


\* Where the URLs of a line begin: the places where the URL pattern matches
\* that lie in no match that begins further left.
UrlOccurrences(line) ==
    {p \in 1..Len(line) :
        /\ UrlLenAt(line, p) > 0
        /\ \A q \in 1..(p - 1) : ~(UrlLenAt(line, q) > 0 /\ q + UrlLenAt(line, q) > p)}

\* The URL at p is delimited already: a closed <url>, or the (url) of a link.
IsDelimited(line, p) ==
    /\ p > 1
    /\ \/ /\ line[p - 1] = "<"
          /\ p + UrlLenAt(line, p) <= Len(line)
          /\ line[p + UrlLenAt(line, p)] = ">"
       \/ /\ line[p - 1] = "("
          /\ line[p + UrlLenAt(line, p) - 1] = ")"

\* A line that holds URLs, each of them delimited already.
AllDelimited(line) ==
    /\ UrlOccurrences(line) # {}
    /\ \A p \in UrlOccurrences(line) : IsDelimited(line, p)

\* C13: the bare-URL rule never alters a URL that is delimited already: a line
\* whose URLs are all in [text](url) or in a closed <url> comes out unchanged
\* and as a line of its own, whatever the lines after it hold. Stated for the
\* lines that only such lines and lines without URLs come before.
C13_DelimitedUrlKept ==
    (command.op = "fixers" /\ applied = <<"MD034">>) =>
        \A i \in 1..Len(Split(original_content)) :
            (/\ AllDelimited(Split(original_content)[i])
             /\ \A j \in 1..(i - 1) :
                    \/ AllDelimited(Split(original_content)[j])
                    \/ UrlOccurrences(Split(original_content)[j]) = {})
            => /\ i <= Len(Split(content))
               /\ Split(content)[i] = Split(original_content)[i]


\* A line the bare-URL rule takes for the beginning of an angle-bracket URL
\* that goes on below: it holds "<http(s)://" and does not end with '>'.
OpensUrl(line) ==
    /\ Contains(line, <<"<">> \o Http) \/ Contains(line, <<"<">> \o Https)
    /\ ~(EndsWith(Strip(line), <<">">>) /\ ~EndsWith(Strip(line), <<"-", ">">>))

\* The URLs of a line that have no '[', '(' or '<' right before them and no
\* ']', ')' or '>' right after them.
BareUrls(line) ==
    {p \in UrlOccurrences(line) :
        /\ ~(p > 1 /\ line[p - 1] \in {"[", "(", "<"})
        /\ ~(/\ p + UrlLenAt(line, p) <= Len(line)
             /\ line[p + UrlLenAt(line, p)] \in {"]", ")", ">"})}

\* A line with '<' put before and '>' put after each of its bare URLs, and
\* every other character as it was.
WithBareUrlsWrapped(line) ==
    Concat([c \in 1..Len(line) |->
               (IF c \in BareUrls(line) THEN <<"<">> ELSE <<>>)
               \o <<line[c]>>
               \o (IF \E p \in BareUrls(line) : c = p + UrlLenAt(line, p) - 1
                   THEN <<">">> ELSE <<>>)])

OrdinalAfter(out, i, indent) ==
    IF /\ i > 1
       /\ _extract_ordered_list_info(out[i - 1]).matched
       /\ _extract_ordered_list_info(out[i - 1]).indent = indent
    THEN _extract_ordered_list_info(out[i - 1]).number + 1
    ELSE 1

\* C15: after the ordered-list renumberer every ordered item has the ordinal 1
\* when the output line before it is not an ordered item with the same
\* indentation, and that line's ordinal plus 1 otherwise, whatever ordinals the
\* input had; the text and the indentation of the items are kept and the other
\* lines are unchanged.
C15_OrdinalsRenumbered ==
    (command.op = "fixers" /\ applied = <<"MD029">>) =>
        /\ Len(Split(content)) = Len(Split(original_content))
        /\ \A i \in 1..Len(Split(original_content)) :
               IF _extract_ordered_list_info(Split(original_content)[i]).matched
               THEN /\ _extract_ordered_list_info(Split(content)[i]).matched
                    /\ _extract_ordered_list_info(Split(content)[i]).indent
                           = _extract_ordered_list_info(Split(original_content)[i]).indent
                    /\ _extract_ordered_list_info(Split(content)[i]).text
                           = _extract_ordered_list_info(Split(original_content)[i]).text
                    /\ _extract_ordered_list_info(Split(content)[i]).number
                           = OrdinalAfter(Split(content), i,
                                 _extract_ordered_list_info(Split(original_content)[i]).indent)
               ELSE Split(content)[i] = Split(original_content)[i]

\* C15 happens: the renumberer ran on a text whose list begins after a line
\* that is no item, with an ordinal other than 1, and goes on with a second item.
C15_Witness ==
    /\ command.op = "fixers"
    /\ applied = <<"MD029">>
    /\ content # original_content
    /\ \E i \in 1..Len(Split(content)) :
           /\ _extract_ordered_list_info(Split(content)[i]).matched
           /\ _extract_ordered_list_info(Split(content)[i]).number = 2
    /\ \E i \in 2..Len(Split(content)) :
           /\ ~_extract_ordered_list_info(Split(content)[i - 1]).matched
           /\ _extract_ordered_list_info(Split(original_content)[i]).matched
           /\ _extract_ordered_list_info(Split(original_content)[i]).number # 1


\* The lines from line i on with every heading in ATX style: an ATX heading
\* keeps its level and its title, a title line with an underline below it
\* becomes one ATX line, of level 1 for an underline with '=' and of level 2
\* otherwise, and any other line stays as it is.
RECURSIVE InAtxStyle(_, _)
InAtxStyle(lines, i) ==
    IF i > Len(lines) THEN <<>>
    ELSE IF _extract_header_info(RStrip(lines[i])).matched
    THEN <<Repeat("#", _extract_header_info(RStrip(lines[i])).level) \o <<SP>>
             \o _extract_header_info(RStrip(lines[i])).title>>
         \o InAtxStyle(lines, i + 1)
    ELSE IF /\ i < Len(lines)
            /\ BeginsNonSpace(lines[i])
            /\ IsUnderline(RStrip(lines[i + 1]))
    THEN <<(IF Contains(lines[i + 1], <<"=">>) THEN <<"#", SP>> ELSE <<"#", "#", SP>>)
             \o Strip(lines[i])>>
         \o InAtxStyle(lines, i + 2)
    ELSE <<lines[i]>> \o InAtxStyle(lines, i + 1)

RunAt(s, i) ==
    IF s[i] = NL THEN RunLen(s, i, {NL}) ELSE RunLen(s, i, Range(s) \ {NL})

\* A text cut into its maximal runs of newlines and of other characters.
RECURSIVE RunsFrom(_, _)
RunsFrom(s, i) ==
    IF i > Len(s) THEN <<>>
    ELSE <<SubSeq(s, i, i + RunAt(s, i) - 1)>> \o RunsFrom(s, i + RunAt(s, i))

\* C17: the blank-line-collapse rule replaces every run of three or more
\* newlines by exactly two and leaves the runs of one or two newlines and all
\* other characters as they were; its output never holds three newlines in a
\* row.
C17_LongRunsCollapsed ==
    (command.op = "fixers" /\ applied = <<"MD012">>) =>
        /\ content =
               Concat([k \in 1..Len(RunsFrom(original_content, 1)) |->
                          IF /\ RunsFrom(original_content, 1)[k][1] = NL
                             /\ Len(RunsFrom(original_content, 1)[k]) >= 3
                          THEN <<NL, NL>>
                          ELSE RunsFrom(original_content, 1)[k]])
        /\ ~Contains(content, <<NL, NL, NL>>)

\* C17 happens: the rule ran on a text with a run of three newlines or more,
\* which it shortened, and a run of fewer.
C17_Witness ==
    /\ command.op = "fixers"
    /\ applied = <<"MD012">>
    /\ Contains(original_content, <<NL, NL, NL>>)
    /\ Contains(original_content, <<"a", NL, "a">>)
    /\ Len(content) < Len(original_content)


\* A line that begins with an ATX marker of one to six '#' and has title text
\* after it, next to the marker or after white space.
HasMarkerAndTitle(line) ==
    /\ HashRun(line) \in 1..6
    /\ RunLen(line, HashRun(line) + 1, WhiteSpace) < Len(line) - HashRun(line)

\* The title text of such a line: what comes after the marker and the white
\* space that follows it.
TitleAfterMarker(line) ==
    Tail_(line, HashRun(line) + 1 + RunLen(line, HashRun(line) + 1, WhiteSpace))

\* C18: after the no-space-after-hash fixer and then the
\* multiple-spaces-after-hash fixer, every line that begins with an ATX marker
\* of one to six '#' followed by title text has exactly one space between the
\* marker and the title, with the level and the title unchanged; the lines that
\* do not begin with '#' are unchanged.
C18_OneSpaceAfterMarker ==
    (command.op = "fixers" /\ applied = <<"MD018", "MD019">>) =>
        /\ Len(Split(content)) = Len(Split(original_content))
        /\ \A i \in 1..Len(Split(original_content)) :
               /\ HasMarkerAndTitle(Split(original_content)[i]) =>
                      Split(content)[i] =
                          Repeat("#", HashRun(Split(original_content)[i])) \o <<SP>>
                          \o TitleAfterMarker(Split(original_content)[i])
               /\ ~StartsWith(Split(original_content)[i], <<"#">>) =>
                      Split(content)[i] = Split(original_content)[i]


\* A line with nothing but white space.
IsBlank(line) == Strip(line) = <<>>

\* Every maximal block of consecutive list items in the lines has a blank line
\* before it unless it starts the lines, and after it unless it ends them.
ListsSetOff(lines) ==
    \A i \in 1..Len(lines) :
        IsListItem(lines[i]) =>
            /\ i > 1 => (IsListItem(lines[i - 1]) \/ IsBlank(lines[i - 1]))
            /\ i < Len(lines) => (IsListItem(lines[i + 1]) \/ IsBlank(lines[i + 1]))

\* C19: after the blanks-around-lists rule, every maximal block of consecutive
\* list-item lines is preceded by a blank line unless it starts the document
\* and followed by a blank line unless it ends the document; a block followed
\* by a non-blank line that is not a list item always gets a blank line
\* between them.
C19_ListsSetOff ==
    (command.op = "fixers" /\ applied = <<"MD032">>) => ListsSetOff(Split(content))


\* The line is the title of a heading: an ATX heading, or a line of text with
\* a Setext underline below it.
IsHeadingAt(lines, i) ==
    \/ _extract_header_info(lines[i]).matched
    \/ /\ i < Len(lines)
       /\ BeginsNonSpace(lines[i])
       /\ ~IsUnderline(RStrip(lines[i]))
       /\ HashRun(lines[i]) = 0
       /\ IsUnderline(RStrip(lines[i + 1]))

\* The title of the heading at line i.
HeadingTitleAt(lines, i) ==
    IF _extract_header_info(lines[i]).matched
    THEN _extract_header_info(lines[i]).title
    ELSE Strip(lines[i])

\* The lines before i with a heading of the same title as the heading at i.
EarlierSameTitle(lines, i) ==
    {j \in 1..(i - 1) :
        IsHeadingAt(lines, j) /\ HeadingTitleAt(lines, j) = HeadingTitleAt(lines, i)}

\* One issue for every heading whose title was met before, at its line, with
\* the line of the first heading of that title.
DuplicateHeadings(lines) ==
    {[line |-> i,
      title |-> HeadingTitleAt(lines, i),
      previous_line |->
          CHOOSE j \in EarlierSameTitle(lines, i) :
              \A k \in EarlierSameTitle(lines, i) : j <= k] :
        i \in {n \in 1..Len(lines) :
                  IsHeadingAt(lines, n) /\ EarlierSameTitle(lines, n) # {}}}

\* C20: the duplicate-heading detector considers ATX and Setext headings alike
\* and compares titles case-sensitively: it reports exactly one issue for each
\* occurrence of a heading title after the first, at the line of that
\* occurrence and with previous_line the line of the first occurrence; titles
\* that occur once give no issue, and the text is returned unchanged.
C20_DuplicateHeadingsReported ==
    (command.op = "detector" /\ command.rules = Rules(<<"MD024">>)) =>
        /\ { [line |-> detected[1].issues[k].line,
              title |-> detected[1].issues[k].title,
              previous_line |-> detected[1].issues[k].previous_line] :
                 k \in 1..Len(detected[1].issues) }
               = DuplicateHeadings(Split(original_content))
        /\ Len(detected[1].issues) = Cardinality(DuplicateHeadings(Split(original_content)))
        /\ content = original_content


\* A line the line-length detector passes over whatever its length: a heading,
\* a list item, a fence line or a blank line.
IsExemptFromLength(line) ==
    \/ _is_header_line(line)
    \/ _is_unordered_list_line(line)
    \/ _is_ordered_list_line(line)
    \/ IsFenceLine(line)
    \/ IsBlank(line)

\* The line and the length of each issue the detector printed.
ReportedLengths ==
    { [line |-> detected[1].issues[k].line, length |-> detected[1].issues[k].length] :
          k \in 1..Len(detected[1].issues) }

\* The line and the length of every line of the set that is over the maximum.
OverMaximum(lines, set) ==
    { [line |-> n, length |-> Len(lines[n])] :
          n \in {m \in set : Len(lines[m]) > max_line_length} }

\* C21: the line-length detector reports line n if and only if line n is
\* strictly longer than the configured maximum and is not a heading, a list
\* item, a table row, a fence line or a blank line; each such line is reported
\* once, with its 1-based number and its length.
C21_LongLinesReported ==
    (command.op = "detector" /\ command.rules = Rules(<<"MD013">>)) =>
        /\ ReportedLengths =
               OverMaximum(Split(original_content),
                   {n \in 1..Len(Split(original_content)) :
                       /\ ~IsExemptFromLength(Split(original_content)[n])
                       /\ ~_is_table_line(Split(original_content)[n])})
        /\ Len(detected[1].issues) = Cardinality(ReportedLengths)

\* C21 as the code has it: the line-length detector reports line n if and only
\* if line n is strictly longer than the configured maximum and is not a
\* heading, a list item, a fence line or a blank line, table rows being
\* measured like any other line; each such line is reported once, with its
\* 1-based number and its length.
C21_LongLinesAndTableRowsReported ==
    (command.op = "detector" /\ command.rules = Rules(<<"MD013">>)) =>
        /\ ReportedLengths =
               OverMaximum(Split(original_content),
                   {n \in 1..Len(Split(original_content)) :
                       ~IsExemptFromLength(Split(original_content)[n])})
        /\ Len(detected[1].issues) = Cardinality(ReportedLengths)

\* C21 happens: the detector ran on a line of exactly the maximum followed by
\* a table row one character longer, and reported the table row alone.
C21_Witness ==
    /\ command.op = "detector"
    /\ command.rules = Rules(<<"MD013">>)
    /\ Len(Split(original_content)) = 2
    /\ Len(Split(original_content)[1]) = max_line_length
    /\ _is_table_line(Split(original_content)[2])
    /\ ReportedLengths = {[line |-> 2, length |-> max_line_length + 1]}


\* The lines with a heading of level 1: an ATX heading with one '#', or a
\* title line with an underline of '=' below it.
TopLevelHeadingLines(lines) ==
    {n \in 1..Len(lines) :
        /\ IsHeadingAt(lines, n)
        /\ IF _extract_header_info(lines[n]).matched
           THEN _extract_header_info(lines[n]).level = 1
           ELSE Contains(lines[n + 1], <<"=">>)}

\* The lines of the set but the least of them.
AfterFirst(set) == {n \in set : \E m \in set : m < n}

\* C22: for a document with k headings of level 1, the multiple-top-level
\* detector reports nothing when k <= 1 and exactly k-1 entries when k > 1, one
\* for each heading of level 1 after the first; the first heading of level 1 is
\* never itself reported.
C22_ExtraTopLevelReported ==
    (command.op = "detector" /\ command.rules = Rules(<<"MD025">>)) =>
        /\ {detected[1].issues[k].line : k \in 1..Len(detected[1].issues)}
               = AfterFirst(TopLevelHeadingLines(Split(original_content)))
        /\ Len(detected[1].issues)
               = Cardinality(AfterFirst(TopLevelHeadingLines(Split(original_content))))


\* C23: after any sequence of create_backup calls and changes of the file, an
\* incremental create_backup of a file reports it skipped (skipped_files = 1,
\* backed_up_files = 0) if and only if the file holds what it held at the most
\* recent create_backup of that file before; it is copied and counted in
\* backed_up_files otherwise.
C23_SkipsExactlyUnchanged ==
    (/\ request.op = "create_backup"
     /\ request.incremental
     /\ request.source_path.is_file
     /\ ~history.cleaned) =>
        IF at_call.seen[request.source_path.path] = source[request.source_path.path]
        THEN stats.skipped_files = 1 /\ stats.backed_up_files = 0
        ELSE stats.skipped_files = 0 /\ stats.backed_up_files = 1


\* The manifest entry of the backup name.
EntryOf(manifest_, backup_name) ==
    manifest_[CHOOSE i \in 1..Len(manifest_) : manifest_[i].name = backup_name]

\* C24: backup then restore is a round trip: for a backup made by create_backup
\* of a directory, after any earlier backups, restore_backup into an empty
\* directory recreates every markdown file the source directory held when the
\* backup was made, at the same path below the directory and with the content
\* it had then, and reports restored_files equal to the total_files of the
\* backup and no error.
C24_RestoreRoundTrip ==
    (/\ request.op = "restore_backup"
     /\ ~EntryOf(manifest, request.backup_name).source_path.is_file) =>
        /\ \A path \in TreePaths :
               history.snapshot[request.backup_name][path] # NoFile =>
                   restored[path] = history.snapshot[request.backup_name][path]
        /\ stats.restored_files = EntryOf(manifest, request.backup_name).stats.total_files
        /\ stats.errors = 0


\* The names of the backups of the manifest that are not among the keep_count
\* most recent by timestamp and are older than keep_days at the time now_.
OldBackups(manifest_, keep_days, keep_count, now_) ==
    {manifest_[i].name : i \in
        {k \in 1..Len(manifest_) :
            /\ Cardinality({m \in 1..Len(manifest_) :
                               manifest_[m].timestamp > manifest_[k].timestamp}) >= keep_count
            /\ manifest_[k].timestamp < now_ - keep_days}}

\* The names of the entries of a manifest or of a list of backups.
NamesOf(backups) == {backups[i].name : i \in 1..Len(backups)}

\* C25: cleanup_old_backups(keep_days, keep_count) never removes one of the
\* keep_count most recent backups and removes nothing when at most keep_count
\* backups exist; of the older backups it removes exactly those whose timestamp
\* is older than keep_days, from the backup directory and from the manifest;
\* list_backups then gives exactly the backups not removed, and
\* removed_backups is the number removed.
C25_CleanupKeepsRecent ==
    request.op = "cleanup_old_backups" =>
        /\ NamesOf(manifest) =
               NamesOf(at_call.manifest)
                   \ OldBackups(at_call.manifest, request.keep_days, request.keep_count,
                                at_call.now)
        /\ \A backup_name \in BackupNames :
               backup_root[backup_name].exists =
                   (/\ at_call.backup_root[backup_name].exists
                    /\ backup_name \notin
                           OldBackups(at_call.manifest, request.keep_days,
                                      request.keep_count, at_call.now))
        /\ list_backups(manifest) =
               SelectSeq(list_backups(at_call.manifest),
                         LAMBDA b : b.name \in NamesOf(manifest))
        /\ stats.removed_backups =
               Cardinality(OldBackups(at_call.manifest, request.keep_days,
                                      request.keep_count, at_call.now))
        /\ (Len(at_call.manifest) <= request.keep_count => manifest = at_call.manifest)

\* C25 happens: of two backups, both older than keep_days, a cleanup that keeps
\* one removed the older and left the newer.
C25_Witness ==
    /\ request.op = "cleanup_old_backups"
    /\ request.keep_count = 1
    /\ Len(at_call.manifest) = 2
    /\ \A i \in 1..2 : at_call.manifest[i].timestamp < at_call.now - request.keep_days
    /\ stats.removed_backups = 1
    /\ Len(manifest) = 1
    /\ \A i \in 1..2 : manifest[1].timestamp >= at_call.manifest[i].timestamp

\* Line i of lines is an ATX heading.
IsAtxAt(lines, i) == _extract_header_info(RStrip(lines[i])).matched

\* Lines i and i + 1 of lines are a Setext pair: a title line that is not an
\* ATX heading and begins with a non-space character, and an underline.
IsSetextPairAt(lines, i) ==
    /\ i < Len(lines)
    /\ ~IsAtxAt(lines, i)
    /\ BeginsNonSpace(RStrip(lines[i]))
    /\ IsUnderline(RStrip(lines[i + 1]))

\* The headings of lines are all Setext pairs, and there is one.
OnlySetext(lines) ==
    /\ \E i \in 1..Len(lines) : IsSetextPairAt(lines, i)
    /\ \A i \in 1..Len(lines) : ~IsAtxAt(lines, i)

\* C26: the heading-style rule takes its target from the styles present. A
\* document whose headings are all Setext keeps them as Setext pairs: no line
\* of the result is an ATX heading and the number of lines is unchanged. Any
\* other document (both styles, ATX only, no heading) gets the ATX style.
C26_TargetFromStylesPresent ==
    (command.op = "fixers" /\ applied = <<"MD003">>) =>
        IF OnlySetext(Split(original_content))
        THEN /\ Len(Split(content)) = Len(Split(original_content))
             /\ \A i \in 1..Len(Split(content)) : ~IsAtxAt(Split(content), i)
        ELSE content = Join(InAtxStyle(Split(original_content), 1))

\* Line i of lines has only '-' or '=' characters and stands where no Setext
\* underline can stand: at the top, below a blank line, or below a line that
\* starts with '#'.
IsRuleLineAt(lines, i) ==
    /\ IsUnderline(RStrip(lines[i]))
    /\ \/ i = 1
       \/ Strip(lines[i - 1]) = <<>>
       \/ StartsWith(lines[i - 1], <<"#">>)

\* The lines of lines that have only '-' or '=' characters.
UnderlineLike(lines) == SelectSeq(lines, LAMBDA l : IsUnderline(RStrip(l)))

\* C27: the heading-style rule takes a line of only '-' or '=' for a Setext
\* underline only below a non-blank line that does not start with '#'. Such a
\* line at the top, below a blank line or below a line starting with '#' is
\* passed through unchanged, so the result has at least as many lines of only
\* '-' or '=' as the text has of these.
C27_RuleLinesPassThrough ==
    (command.op = "fixers" /\ applied = <<"MD003">>) =>
        Len(UnderlineLike(Split(content)))
            >= Cardinality({i \in 1..Len(Split(original_content)) :
                               IsRuleLineAt(Split(original_content), i)})

\* Line i of lines ends in a '-' in the middle of a bare URL.
IsWrappedStart(line) ==
    /\ EndsWith(Strip(line), <<"-">>)
    /\ UrlAtEnd(line) > 0

\* A line at which the joining of a wrapped URL has to stop without taking it
\* in: a blank line, or the start of a heading, a list, a quote, a table, a
\* fence or a link.
IsStopLine(line) ==
    \/ Strip(line) = <<>>
    \/ Strip(line)[1] \in {"#", "-", "*", ">", BQ, "|", "["}

\* The text without the line ends and without angle brackets.
Kept(text) == SelectSeq(text, LAMBDA c : c \notin {NL, "<", ">"})

\* How many of lines are equal to line.
CountOf(lines, line) == Cardinality({i \in 1..Len(lines) : lines[i] = line})

\* C28: when the bare-URL rule puts a wrapped bare URL together, no text is
\* lost and no stop line is taken in. For a text without '<' that has a line
\* ending in the middle of a bare URL, the result is the text with line ends
\* removed and angle brackets added and nothing else, and every blank line and
\* every line that starts a block construct is in the result as often as in
\* the text.
C28_WrappedUrlLosesNoText ==
    ( /\ command.op = "fixers" /\ applied = <<"MD034">>
      /\ ~Contains(original_content, <<"<">>)
      /\ \E i \in 1..Len(Split(original_content)) :
             IsWrappedStart(Split(original_content)[i]) ) =>
        /\ Kept(content) = Kept(original_content)
        /\ \A i \in 1..Len(Split(original_content)) :
               ( /\ IsStopLine(Split(original_content)[i])
                 /\ ~IsWrappedStart(Split(original_content)[i]) ) =>
                   CountOf(Split(content), Split(original_content)[i])
                       >= CountOf(Split(original_content), Split(original_content)[i])

\* Line i of lines opens a '<http://' or '<https://' that no '>' on the line
\* closes, and no later line has a '>'.
IsLeftOpenAt(lines, i) ==
    /\ Contains(lines[i], <<"<">> \o Http) \/ Contains(lines[i], <<"<">> \o Https)
    /\ ~Contains(Tail_(lines[i], RFind(lines[i], <<"<">>)), <<">">>)
    /\ \A j \in (i + 1)..Len(lines) : ~Contains(lines[j], <<">">>)

\* The line is one at which the rule may put lines together: it ends in a '-'
\* or it has a '<http://' or a '<https://'.
MayJoin(line) ==
    \/ EndsWith(Strip(line), <<"-">>)
    \/ Contains(line, <<"<">> \o Http)
    \/ Contains(line, <<"<">> \o Https)

IsSeparatorLine(line) ==
    /\ Len(Strip(line)) >= 2
    /\ StartsWith(Strip(line), <<"|">>)
    /\ EndsWith(Strip(line), <<"|">>)
    /\ \A k \in 1..Len(Strip(line)) : Strip(line)[k] \in WhiteSpace \cup {"-", "|"}

\* The line is a row the table-pipe rule rewrites.
IsRewrittenRow(line) ==
    /\ StartsWith(Strip(line), <<"|">>)
    /\ EndsWith(Strip(line), <<"|">>)
    /\ ~IsSeparatorLine(line)

\* row is the line with every cell that is not empty trimmed and set between
\* two spaces, the cells in their order and as many as before.
IsSpacedRowOf(row, line) ==
    /\ Len(SplitOn(row, "|")) = Len(SplitOn(Strip(line), "|"))
    /\ \A k \in 1..Len(SplitOn(row, "|")) :
           SplitOn(row, "|")[k] =
               IF Strip(SplitOn(Strip(line), "|")[k]) = <<>> THEN <<>>
               ELSE <<SP>> \o Strip(SplitOn(Strip(line), "|")[k]) \o <<SP>>

\* C30: the table-pipe rule rewrites only the rows whose trimmed form starts
\* and ends with '|' and that are not separator rows. Such a row becomes its
\* cells in their order, each cell that is not empty trimmed and given one
\* space on each side, joined by '|'. Separator rows and all other lines come
\* out as they went in, and there are as many lines as before.
C30_TableRowsSpaced ==
    (command.op = "fixers" /\ applied = <<"MD055">>) =>
        /\ Len(Split(content)) = Len(Split(original_content))
        /\ \A i \in 1..Len(Split(original_content)) :
               IF IsRewrittenRow(Split(original_content)[i])
               THEN IsSpacedRowOf(Split(content)[i], Split(original_content)[i])
               ELSE Split(content)[i] = Split(original_content)[i]

\* C30 happens: the rule ran on a text with a row it rewrote, a separator row
\* and a line that is no row, and the last two came out as they went in.
C30_Witness ==
    /\ command.op = "fixers" /\ applied = <<"MD055">>
    /\ content # original_content
    /\ \E i \in 1..Len(Split(original_content)) :
           /\ IsRewrittenRow(Split(original_content)[i])
           /\ Split(content)[i] # Split(original_content)[i]
    /\ \E i \in 1..Len(Split(original_content)) :
           IsSeparatorLine(Split(original_content)[i])
    /\ \E i \in 1..Len(Split(original_content)) :
           ~StartsWith(Strip(Split(original_content)[i]), <<"|">>)

=============================================================================
